---- MODULE Spec2Model ----
(***************************************************************************)
(* Model of the agentic invoice processor: the client-case matcher         *)
(* (src/src/clientcase_matcher.py), the pre-processor gatekeeper and its   *)
(* command (src/src/universal_invoice_processor.py, src/run.py) and the    *)
(* orchestrator with its agent calls, ladder, post-processing and batch    *)
(* loop (src/src/capstone_agents.py, src/src/utils.py).                    *)
(*                                                                         *)
(* A Python str is a sequence of one-character strings; None is a record   *)
(* with some = FALSE.  Floats that the code only copies or compares are    *)
(* kept as integers: confidences in hundredths, hours in half hours.       *)
(***************************************************************************)
EXTENDS Integers, Sequences, FiniteSets, TLC

VARIABLES
    \* ClientCaseMatcher
    csv_rows,        \* the clientCaseNumber column of the registry file, row by row
    matcher,         \* "unloaded" | "loaded" | "disabled"
    valid_codes,     \* ClientCaseMatcher.valid_codes
    index_by_canon,  \* ClientCaseMatcher.index_by_canon
    result,          \* the MatchResult of the last match() call
    \* UniversalInvoiceExtractor (pre-processor) and the files it writes
    registry_file,   \* "ok" | "missing": data/reference/valid_clientcases.csv
    pdf_count,       \* number of *.pdf files in data/invoices
    input_dir,       \* "ok" | "missing": data/invoices
    pre_pc,          \* "new" | "processing" | "saved" | "loaded" | "ended"
    exit_code,       \* the exit code of the pre-processing CLI once it has ended
    results,         \* UniversalInvoiceExtractor.results
    metadata,        \* invoice_metadata.json
    manifest,        \* manifest.json, its "invoices" list
    examples,        \* what load_all_coaching_invoices returns
    \* InvoiceOrchestrator.process_invoice
    invoice_data,    \* the invoice context it is called with
    orch_pc,         \* "idle" | "gather" | "tier2" | "done"
    header_res,      \* the header agent's result, then the header being completed
    lines_res,       \* the line-item agent's result
    final_result,    \* the record process_invoice returns
    calls,           \* the agent, file and OCR calls it has made, in order
    ocr_file,        \* the OCR dump written under data/llm_ready/ocr_texts
    backoff,         \* of each of the two gathered calls: attempt and asleep
    \* main of the orchestrator
    main_pc,         \* "idle" | "loop" | "cooldown" | "pause" | "done"
    processed,       \* the filenames process_invoice was called with, in order
    outputs,         \* the files of json_out_multi_agent, by invoice filename
    main_sleeps,     \* its asyncio.sleep calls: after how many invoices, how long
    \* InvoiceOrchestrator._run_agent, one call
    agent_pc,        \* "idle" | "invoke" | "sleep" | "returned"
    max_retries,     \* its max_retries argument
    attempt,         \* the loop variable
    invocations,     \* the outcomes of the model invocations made, in order
    sleeps,          \* the seconds slept, in order
    agent_ret,       \* what the call returned: a result or None
    \* ClientCaseMatcher.canonical_case_number, one call
    canon_pc,        \* "idle" | "called" | "returned"
    canon_in,        \* its argument
    canon_out,       \* its return value
    \* strip_markdown_json_fences, one call
    fence_pc,        \* "idle" | "called" | "returned"
    fence_in,        \* its argument
    fence_out        \* its return value

matcherVars == <<csv_rows, matcher, valid_codes, index_by_canon, result>>
preVars == <<registry_file, pdf_count, input_dir, pre_pc, exit_code, results,
             metadata, manifest, examples>>
orchVars == <<invoice_data, orch_pc, header_res, lines_res, final_result, calls,
              ocr_file, backoff>>
mainVars == <<main_pc, processed, outputs, main_sleeps>>
agentVars == <<agent_pc, max_retries, attempt, invocations, sleeps, agent_ret>>
canonVars == <<canon_pc, canon_in, canon_out>>
fenceVars == <<fence_pc, fence_in, fence_out>>
vars == <<csv_rows, matcher, valid_codes, index_by_canon, result,
          registry_file, pdf_count, input_dir, pre_pc, exit_code, results,
          metadata, manifest, examples,
          invoice_data, orch_pc, header_res, lines_res, final_result, calls,
          ocr_file, backoff,
          main_pc, processed, outputs, main_sleeps,
          agent_pc, max_retries, attempt, invocations, sleeps, agent_ret,
          canon_pc, canon_in, canon_out,
          fence_pc, fence_in, fence_out>>

-----------------------------------------------------------------------------
(* Bounds of the model *)

\* rows of the registry file
MaxRows == 2

\* *.pdf files in the input directory
MaxPdfs == 2

-----------------------------------------------------------------------------
(* Python str helpers *)

\* The characters the model's strings use, in code-point order.
Alphabet ==
    <<" ", "-", "0", "1", "2", "3", "4", "5", "6", "7", "8", "9",
      "A", "B", "C", "I", "J", "N", "O", "X",
      "a", "b", "c", "i", "j", "n", "o", "x">>

Ord(ch) == CHOOSE i \in 1..Len(Alphabet) : Alphabet[i] = ch

Digits == {"0", "1", "2", "3", "4", "5", "6", "7", "8", "9"}
UpperLetters == {"A", "B", "C", "I", "J", "N", "O", "X"}
LowerLetters == {"a", "b", "c", "i", "j", "n", "o", "x"}

\* the letters str.upper() and str.lower() map onto each other
UpperAZ == <<"A", "B", "C", "D", "E", "F", "G", "H", "I", "J", "K", "L", "M",
             "N", "O", "P", "Q", "R", "S", "T", "U", "V", "W", "X", "Y", "Z">>
LowerAZ == <<"a", "b", "c", "d", "e", "f", "g", "h", "i", "j", "k", "l", "m",
             "n", "o", "p", "q", "r", "s", "t", "u", "v", "w", "x", "y", "z">>

\* str.upper() on one character
UpperChar(ch) ==
    CASE ch = "a" -> "A" [] ch = "b" -> "B" [] ch = "c" -> "C"
      [] ch = "i" -> "I" [] ch = "j" -> "J" [] ch = "n" -> "N"
      [] ch = "o" -> "O" [] ch = "x" -> "X"
      [] OTHER -> IF \E i \in 1..Len(LowerAZ) : LowerAZ[i] = ch
                  THEN UpperAZ[CHOOSE i \in 1..Len(LowerAZ) : LowerAZ[i] = ch]
                  ELSE ch

\* str.lower() on one character
LowerChar(ch) ==
    IF \E i \in 1..Len(UpperAZ) : UpperAZ[i] = ch
    THEN LowerAZ[CHOOSE i \in 1..Len(UpperAZ) : UpperAZ[i] = ch]
    ELSE ch

\* str.lower()
Lower(s) == [i \in 1..Len(s) |-> LowerChar(s[i])]

\* str.upper()
Upper(s) == [i \in 1..Len(s) |-> UpperChar(s[i])]

\* the white space of the model's strings
Whitespace == {" ", "\n", "\t"}

\* str.strip(): leading and trailing white space removed
Strip(s) ==
    LET nonblank == {i \in 1..Len(s) : s[i] \notin Whitespace}
    IN  IF nonblank = {} THEN <<>>
        ELSE LET lo == CHOOSE i \in nonblank : \A j \in nonblank : i <= j
                 hi == CHOOSE i \in nonblank : \A j \in nonblank : j <= i
             IN  SubSeq(s, lo, hi)

\* str < str: lexicographic by code point
StrLess(a, b) ==
    \/ /\ Len(a) < Len(b)
       /\ \A i \in 1..Len(a) : a[i] = b[i]
    \/ \E k \in 1..Len(a) :
          /\ k <= Len(b)
          /\ \A i \in 1..(k - 1) : a[i] = b[i]
          /\ Ord(a[k]) < Ord(b[k])

\* Optional[str]
None == [some |-> FALSE, val |-> <<>>]
Some(s) == [some |-> TRUE, val |-> s]

-----------------------------------------------------------------------------
(* The strings the model draws its inputs from *)

JN16_I21_284 == <<"J","N","1","6","-","I","2","1","-","2","8","4">>
JN16_121_284 == <<"J","N","1","6","-","1","2","1","-","2","8","4">>
jn16_i21_284 == <<"j","n","1","6","-","i","2","1","-","2","8","4">>
AB12_C34_567 == <<"A","B","1","2","-","C","3","4","-","5","6","7">>
AB12_O34_567 == <<"A","B","1","2","-","O","3","4","-","5","6","7">>
AB12_034_567 == <<"A","B","1","2","-","0","3","4","-","5","6","7">>
ab12_o34_567 == <<"a","b","1","2","-","o","3","4","-","5","6","7">>
XX99_X99_999 == <<"X","X","9","9","-","X","9","9","-","9","9","9">>
\* shorter than a case number
IO_I21 == <<"I","O","-","I","2","1">>
s10_121 == <<"1","0","-","1","2","1">>
Blank == <<" ", " ">>
Empty == <<>>
\* a registry row with surrounding blanks
Padded_JN16_I21_284 == <<" ">> \o JN16_I21_284 \o <<" ">>

\* cells a registry row can hold
RowValues ==
    {JN16_I21_284, AB12_C34_567, AB12_O34_567, AB12_034_567, IO_I21,
     Padded_JN16_I21_284, Blank}

\* strings handed to match()
InputCodes ==
    {JN16_I21_284, JN16_121_284, jn16_i21_284, AB12_C34_567, AB12_O34_567,
     AB12_034_567, ab12_o34_567, XX99_X99_999, IO_I21, s10_121, Blank, Empty,
     Padded_JN16_I21_284}

RECURSIVE SeqsUpTo(_, _)
\* the sequences over S of length at most n
SeqsUpTo(S, n) ==
    IF n = 0 THEN {<<>>}
    ELSE LET shorter == SeqsUpTo(S, n - 1)
         IN  shorter \cup {Append(q, e) : q \in {p \in shorter : Len(p) = n - 1}, e \in S}

Registries == SeqsUpTo(RowValues, MaxRows)

-----------------------------------------------------------------------------
(* ClientCaseMatcher *)

\* len(c) < 11: too short to canonicalise
MinCanonLen == 11

\* letter_positions = [0, 1, 5], one-based
LetterPositions == {1, 2, 6}

\* mutant: the O branch is missing
CanonChar_only_I(ch) ==
    IF ch = "I" THEN "1" ELSE ch

CanonChar(ch) ==
    IF ch = "I" THEN "1" ELSE IF ch = "O" THEN "0" ELSE ch

\* mutant: the positions are counted before the surrounding blanks are cut
canonical_case_number_strip_last(code) ==
    LET c == Upper(code)
    IN  IF Len(c) < MinCanonLen THEN Strip(c)
        ELSE Strip([i \in 1..Len(c) |->
                IF i \in LetterPositions THEN CanonChar(c[i]) ELSE c[i]])

canonical_case_number(code) ==
    LET c == Upper(Strip(code))
    IN  IF Len(c) < MinCanonLen THEN c
        ELSE [i \in 1..Len(c) |->
                IF i \in LetterPositions THEN CanonChar(c[i]) ELSE c[i]]

contamination_flag(code) ==
    LET c == Upper(code)
        has_i == \E i \in 1..Len(c) : c[i] = "I"
        has_o == \E i \in 1..Len(c) : c[i] = "O"
    IN  IF ~has_i /\ ~has_o THEN "none"
        ELSE IF has_i /\ has_o THEN "I_and_O"
        ELSE IF has_i THEN "I_only"
        ELSE "O_only"

\* dict.get(canon, [])
IndexGet(index, canon) ==
    IF canon \in DOMAIN index THEN index[canon] ELSE <<>>

\* mutant: a bucket keeps one entry per code (a set, not a list)
IndexAppend_dedupe(index, canon, code) ==
    [k \in (DOMAIN index) \cup {canon} |->
        IF k = canon
        THEN IF \E i \in 1..Len(IndexGet(index, canon)) : IndexGet(index, canon)[i] = code
             THEN index[k]
             ELSE Append(IndexGet(index, canon), code)
        ELSE index[k]]

\* index_by_canon.setdefault(canon, []).append(code)
IndexAppend(index, canon, code) ==
    [k \in (DOMAIN index) \cup {canon} |->
        IF k = canon THEN Append(IndexGet(index, canon), code) ELSE index[k]]

EmptyIndex == [k \in {} |-> <<>>]

RECURSIVE LoadRows_overwrite(_, _, _)
\* mutant: index_by_canon[canon] = [code], the last row of a bucket wins
LoadRows_overwrite(rows, codes, index) ==
    IF rows = <<>> THEN [valid_codes |-> codes, index_by_canon |-> index]
    ELSE LET code == Strip(Head(rows))
             canon == canonical_case_number(code)
         IN  IF code = <<>> THEN LoadRows_overwrite(Tail(rows), codes, index)
             ELSE LoadRows_overwrite(Tail(rows), codes \cup {code},
                      [k \in (DOMAIN index) \cup {canon} |->
                          IF k = canon THEN <<code>> ELSE index[k]])

RECURSIVE LoadRows(_, _, _)
\* the row loop of _load_index: (valid_codes, index_by_canon) after the rows
LoadRows(rows, codes, index) ==
    IF rows = <<>> THEN [valid_codes |-> codes, index_by_canon |-> index]
    ELSE LET code == Strip(Head(rows))
         IN  IF code = <<>> THEN LoadRows(Tail(rows), codes, index)
             ELSE LoadRows(Tail(rows), codes \cup {code},
                           IndexAppend(index, canonical_case_number(code), code))

ConfExact == 100
ConfFuzzy == 75
ConfAmbiguous == 30
ConfUnknown == 0

MatchResult(original, matched, status, confidence, contamination, candidates, notes) ==
    [original_code |-> original, matched_code |-> matched, match_status |-> status,
     match_confidence |-> confidence, contamination |-> contamination,
     candidates |-> candidates, notes |-> notes]

\* mutant: the exact-match step is skipped
match_no_exact(codes, index, code) ==
    LET original == Strip(code)
        canon == canonical_case_number(original)
        candidates == IndexGet(index, canon)
    IN  IF original = <<>> THEN
            MatchResult(original, None, "unknown", ConfUnknown, "none", <<>>,
                        "Empty or whitespace-only clientCaseNumber")
        ELSE IF candidates = <<>> THEN
            MatchResult(original, None, "unknown", ConfUnknown,
                        contamination_flag(original), <<>>,
                        "clientCaseNumber is not registered")
        ELSE IF Len(candidates) = 1 THEN
            MatchResult(original, Some(candidates[1]), "fuzzy_io_swap", ConfFuzzy,
                        contamination_flag(candidates[1]), candidates,
                        "Matched via I/1 or O/0 canonical mapping")
        ELSE
            MatchResult(original, None, "ambiguous_io_swap", ConfAmbiguous,
                        "none", candidates,
                        "Multiple possible matches for canonical form")

\* mutant: len(candidates) >= 1 takes the first candidate
match_first_candidate(codes, index, code) ==
    LET original == Strip(code)
        canon == canonical_case_number(original)
        candidates == IndexGet(index, canon)
    IN  IF original = <<>> THEN
            MatchResult(original, None, "unknown", ConfUnknown, "none", <<>>,
                        "Empty or whitespace-only clientCaseNumber")
        ELSE IF original \in codes THEN
            MatchResult(original, Some(original), "exact", ConfExact,
                        contamination_flag(original), <<original>>, "")
        ELSE IF candidates = <<>> THEN
            MatchResult(original, None, "unknown", ConfUnknown,
                        contamination_flag(original), <<>>,
                        "clientCaseNumber is not registered")
        ELSE
            MatchResult(original, Some(candidates[1]), "fuzzy_io_swap", ConfFuzzy,
                        contamination_flag(candidates[1]), candidates,
                        "Matched via I/1 or O/0 canonical mapping")

\* ClientCaseMatcher.match against a loaded index
match(codes, index, code) ==
    LET original == Strip(code)
        canon == canonical_case_number(original)
        candidates == IndexGet(index, canon)
    IN  IF original = <<>> THEN
            MatchResult(original, None, "unknown", ConfUnknown, "none", <<>>,
                        "Empty or whitespace-only clientCaseNumber")
        ELSE IF original \in codes THEN
            MatchResult(original, Some(original), "exact", ConfExact,
                        contamination_flag(original), <<original>>, "")
        ELSE IF candidates = <<>> THEN
            MatchResult(original, None, "unknown", ConfUnknown,
                        contamination_flag(original), <<>>,
                        "clientCaseNumber is not registered")
        ELSE IF Len(candidates) = 1 THEN
            MatchResult(original, Some(candidates[1]), "fuzzy_io_swap", ConfFuzzy,
                        contamination_flag(candidates[1]), candidates,
                        "Matched via I/1 or O/0 canonical mapping")
        ELSE
            MatchResult(original, None, "ambiguous_io_swap", ConfAmbiguous,
                        "none", candidates,
                        "Multiple possible matches for canonical form")

NoResult == MatchResult(<<>>, None, "none", 0, "none", <<>>, "")

-----------------------------------------------------------------------------
(* The matcher on its own: load a registry, then match codes against it *)

\* no invoice is being orchestrated
OrchUnused ==
    /\ invoice_data = [filename |-> 0, allowed_client_cases_prompt |-> <<>>,
                       allowed_client_cases_valid |-> <<>>, correction_map |-> <<>>]
    /\ orch_pc = "idle"
    /\ header_res = [done |-> FALSE, some |-> FALSE, val |-> <<>>]
    /\ lines_res = [done |-> FALSE, some |-> FALSE, val |-> <<>>]
    /\ final_result = <<>>
    /\ calls = <<>>
    /\ ocr_file = None
    /\ backoff = [task \in {"header", "lines"} |-> [attempt |-> 0, asleep |-> FALSE]]

\* no exit code yet
NoExit == [some |-> FALSE, val |-> 0]
Exit(code) == [some |-> TRUE, val |-> code]

\* the orchestrator's main has not started
MainIdle ==
    /\ main_pc = "idle"
    /\ processed = <<>>
    /\ outputs = <<>>
    /\ main_sleeps = <<>>

\* no _run_agent call is looked at
AgentIdle ==
    /\ agent_pc = "idle"
    /\ max_retries = 0
    /\ attempt = 0
    /\ invocations = <<>>
    /\ sleeps = <<>>
    /\ agent_ret = [done |-> FALSE, some |-> FALSE]

\* no canonical_case_number call is looked at
CanonIdle ==
    /\ canon_pc = "idle"
    /\ canon_in = <<>>
    /\ canon_out = <<>>

\* no strip_markdown_json_fences call is looked at
FenceIdle ==
    /\ fence_pc = "idle"
    /\ fence_in = <<>>
    /\ fence_out = <<>>

\* the pre-processor before it is constructed
PreIdle ==
    /\ pdf_count = 0
    /\ input_dir = "ok"
    /\ exit_code = NoExit
    /\ pre_pc = "new"
    /\ results = <<>>
    /\ metadata = <<>>
    /\ manifest = <<>>
    /\ examples = <<>>

InitMatcher ==
    /\ csv_rows \in Registries
    /\ registry_file = "ok"
    /\ matcher = "unloaded"
    /\ valid_codes = {}
    /\ index_by_canon = EmptyIndex
    /\ result = NoResult
    /\ PreIdle
    /\ OrchUnused
    /\ MainIdle /\ AgentIdle /\ CanonIdle /\ FenceIdle

\* ClientCaseMatcher.__init__: _load_index reads every row
LoadIndex ==
    /\ matcher = "unloaded"
    /\ LET loaded == LoadRows(csv_rows, {}, EmptyIndex)
       IN  /\ valid_codes' = loaded.valid_codes
           /\ index_by_canon' = loaded.index_by_canon
    /\ matcher' = "loaded"
    /\ UNCHANGED <<csv_rows, result>>
    /\ UNCHANGED <<preVars, orchVars, mainVars, agentVars, canonVars, fenceVars>>

\* one call of ClientCaseMatcher.match
Match ==
    /\ matcher = "loaded"
    /\ \E code \in InputCodes :
          result' = match(valid_codes, index_by_canon, code)
    /\ UNCHANGED <<csv_rows, matcher, valid_codes, index_by_canon>>
    /\ UNCHANGED <<preVars, orchVars, mainVars, agentVars, canonVars, fenceVars>>

NextMatcher == LoadIndex \/ Match

SpecMatcher == InitMatcher /\ [][NextMatcher]_vars

-----------------------------------------------------------------------------
(* InvoiceRegexExtractor: the client-case pattern *)

IsDigit(ch) == ch \in Digits
IsAlnum(ch) == UpperChar(ch) \in (UpperLetters \cup Digits)

\* a whole word matching (?i)[A-Z0-9]{2}\d{1,2}-[A-Z0-9]\d{2}-\d{3}
IsClientCaseShape(w) ==
    \E k \in {1, 2} :
        /\ Len(w) = 10 + k
        /\ IsAlnum(w[1]) /\ IsAlnum(w[2])
        /\ \A i \in 3..(2 + k) : IsDigit(w[i])
        /\ w[3 + k] = "-"
        /\ IsAlnum(w[4 + k])
        /\ IsDigit(w[5 + k]) /\ IsDigit(w[6 + k])
        /\ w[7 + k] = "-"
        /\ \A i \in (8 + k)..(10 + k) : IsDigit(w[i])

RECURSIVE DedupeFrom(_, _)
DedupeFrom(items, unique) ==
    IF items = <<>> THEN unique
    ELSE LET val == Strip(Head(items))
         IN  IF val # <<>> /\ ~(\E i \in 1..Len(unique) : unique[i] = val)
             THEN DedupeFrom(Tail(items), Append(unique, val))
             ELSE DedupeFrom(Tail(items), unique)

\* _dedupe: first occurrences, in order
Dedupe(items) == DedupeFrom(items, <<>>)

\* extract_all(text)['client_cases']
FindClientCases(text) == Dedupe(SelectSeq(text.words, IsClientCaseShape))

-----------------------------------------------------------------------------
(* Text of a PDF.  A text is its length, its length once stripped, its     *)
(* words and whether the other patterns (dates, amounts, invoice numbers)  *)
(* find anything in it.                                                    *)

EmptyText ==
    [length |-> 0, stripped |-> 0, words |-> <<>>,
     dates |-> FALSE, amounts |-> FALSE, invoice_numbers |-> FALSE]

RECURSIVE WordsLen(_)
\* the length of the words joined by single blanks
WordsLen(words) ==
    IF words = <<>> THEN 0
    ELSE IF Len(words) = 1 THEN Len(Head(words))
    ELSE Len(Head(words)) + 1 + WordsLen(Tail(words))

\* the text layer of a one-page PDF as an engine's page.extract_text() gives
\* it: body characters that hold no case number, then the words
Page(body, words) ==
    [length |-> body + WordsLen(words) + (IF body > 0 /\ words # <<>> THEN 1 ELSE 0),
     words |-> words,
     dates |-> body > 0, amounts |-> body > 0, invoice_numbers |-> body > 0]

\* what an engine does with a file: it raises, or it reads the page
Raises == [raises |-> TRUE, page |-> Page(0, <<>>)]
Reads(page) == [raises |-> FALSE, page |-> page]

\* "\n--- Page 1 ---\n" and the closing "\n" around a page's text
MarkerChars == 17
\* what strip() leaves of them
StrippedMarkerChars == 15
\* len(text.strip()) > 50
MinTextChars == 50

\* the text an engine builds from the page it read
TextOfPage(page) ==
    [length |-> page.length + MarkerChars,
     stripped |-> page.length + StrippedMarkerChars,
     words |-> page.words, dates |-> page.dates,
     amounts |-> page.amounts, invoice_numbers |-> page.invoice_numbers]

\* mutant: any extracted text counts as a success
EngineExtract_any_text(out) ==
    IF out.raises THEN [text |-> EmptyText, success |-> FALSE]
    ELSE IF out.page.length = 0 THEN [text |-> EmptyText, success |-> FALSE]
    ELSE [text |-> TextOfPage(out.page), success |-> TRUE]

\* extract_text_pdfplumber / extract_text_pypdf2 on what the engine does with
\* the file
EngineExtract(out) ==
    IF out.raises THEN [text |-> EmptyText, success |-> FALSE]
    ELSE IF out.page.length = 0 THEN [text |-> EmptyText, success |-> FALSE]
    ELSE [text |-> TextOfPage(out.page),
          success |-> TextOfPage(out.page).stripped > MinTextChars]

-----------------------------------------------------------------------------
(* UniversalInvoiceExtractor *)

\* annotate_client_cases: client_case_matches, one entry per candidate in
\* order; no entry at all without a matcher or without candidates
AnnotateClientCases(m, codes, index, cases) ==
    IF m # "loaded" THEN <<>>
    ELSE [i \in 1..Len(cases) |->
            LET r == match(codes, index, cases[i])
            IN  [code |-> cases[i], matchedCode |-> r.matched_code,
                 matchStatus |-> r.match_status,
                 matchConfidence |-> r.match_confidence,
                 contamination |-> r.contamination,
                 candidates |-> r.candidates, notes |-> r.notes]]

CountStatus(matches, status) ==
    Cardinality({i \in 1..Len(matches) : matches[i].matchStatus = status})

StatusCounts(matches) ==
    [exact |-> CountStatus(matches, "exact"),
     fuzzy_io_swap |-> CountStatus(matches, "fuzzy_io_swap"),
     unknown |-> CountStatus(matches, "unknown"),
     ambiguous_io_swap |-> CountStatus(matches, "ambiguous_io_swap")]

\* mutant: a fuzzy match is looked at before an unknown one
EvaluateClientCaseVerdict_fuzzy_first(matches) ==
    LET counts == StatusCounts(matches)
    IN  IF matches = <<>> THEN
            [verdict |-> "reject",
             reason |-> "No clientCaseNumbers found; likely not a coaching invoice",
             counts |-> counts]
        ELSE IF counts.fuzzy_io_swap > 0 THEN
            [verdict |-> "needs_review",
             reason |-> "historical character errors, auto-corrected",
             counts |-> counts]
        ELSE IF counts.unknown > 0 \/ counts.ambiguous_io_swap > 0 THEN
            [verdict |-> "reject",
             reason |-> "unknown or ambiguous clientCaseNumbers",
             counts |-> counts]
        ELSE
            [verdict |-> "accept",
             reason |-> "All clientCaseNumbers are known and match exactly",
             counts |-> counts]

\* _evaluate_client_case_verdict
EvaluateClientCaseVerdict(matches) ==
    LET counts == StatusCounts(matches)
    IN  IF matches = <<>> THEN
            [verdict |-> "reject",
             reason |-> "No clientCaseNumbers found; likely not a coaching invoice",
             counts |-> counts]
        ELSE IF counts.unknown > 0 \/ counts.ambiguous_io_swap > 0 THEN
            [verdict |-> "reject",
             reason |-> "unknown or ambiguous clientCaseNumbers",
             counts |-> counts]
        ELSE IF counts.fuzzy_io_swap > 0 THEN
            [verdict |-> "needs_review",
             reason |-> "historical character errors, auto-corrected",
             counts |-> counts]
        ELSE
            [verdict |-> "accept",
             reason |-> "All clientCaseNumbers are known and match exactly",
             counts |-> counts]

Min(a, b) == IF a <= b THEN a ELSE b

\* calculate_confidence, in hundredths
CalculateConfidence(is_coaching, text) ==
    IF ~is_coaching THEN (IF text.length > 0 THEN 10 ELSE 0)
    ELSE Min(40 + (IF text.dates THEN 20 ELSE 0)
                + (IF text.amounts THEN 20 ELSE 0)
                + (IF text.invoice_numbers THEN 10 ELSE 0)
                + (IF text.length > 500 THEN 10
                   ELSE IF text.length > 100 THEN 5 ELSE 0),
             100)

\* UniversalInvoiceExtractor.process_invoice on one file
ProcessPdf(filename, pdf, m, codes, index) ==
    LET first == EngineExtract(pdf.primary)
        used == IF first.success THEN first ELSE EngineExtract(pdf.secondary)
        text == used.text
        cases == IF text.length > 0 THEN FindClientCases(text) ELSE <<>>
        matches == AnnotateClientCases(m, codes, index, cases)
        is_coaching == cases # <<>>
    IN  [filename |-> filename,
         extracted_text |-> text,
         extraction_method |-> IF used.success THEN "pdf_text" ELSE "failed",
         client_case_numbers |-> cases,
         text_length |-> text.length,
         error_message |-> IF used.success THEN "" ELSE "Failed to extract text",
         client_case_matches |-> matches,
         client_case_summary |-> EvaluateClientCaseVerdict(matches),
         is_coaching_invoice |-> is_coaching,
         confidence_score |-> CalculateConfidence(is_coaching, text)]

\* mutant: the verdict is left out of the flag
ManifestEntry_no_verdict(inv) ==
    [filename |-> inv.filename,
     confidence |-> inv.confidence_score,
     is_coaching_invoice |-> inv.is_coaching_invoice,
     client_case_verdict |-> inv.client_case_summary.verdict,
     client_case_reason |-> inv.client_case_summary.reason,
     ready_for_llm |-> inv.is_coaching_invoice /\ inv.text_length > 0]

\* one entry of manifest["invoices"] in save_results
ManifestEntry(inv) ==
    [filename |-> inv.filename,
     confidence |-> inv.confidence_score,
     is_coaching_invoice |-> inv.is_coaching_invoice,
     client_case_verdict |-> inv.client_case_summary.verdict,
     client_case_reason |-> inv.client_case_summary.reason,
     ready_for_llm |-> /\ inv.is_coaching_invoice
                       /\ inv.text_length > 0
                       /\ inv.client_case_summary.verdict # "reject"]

\* one entry of invoice_metadata.json in save_results
MetadataEntry(inv) ==
    [filename |-> inv.filename,
     text_length |-> inv.text_length,
     extraction_method |-> inv.extraction_method,
     confidence_score |-> inv.confidence_score,
     client_case_matches |-> inv.client_case_matches,
     client_case_summary |-> inv.client_case_summary]

-----------------------------------------------------------------------------
(* load_all_coaching_invoices *)

\* the candidates that feed the allow-lists and the correction map
Contributing(matches) ==
    SelectSeq(matches, LAMBDA info :
        info.matchedCode.some /\ info.matchStatus \in {"exact", "fuzzy_io_swap"})

\* dict lookup in a correction map kept as its items, a later item for the
\* same key replacing the earlier one
MapHas(map, key) == \E i \in 1..Len(map) : map[i].raw = key
MapGet(map, key) ==
    map[CHOOSE i \in 1..Len(map) :
            map[i].raw = key /\ \A j \in (i + 1)..Len(map) : map[j].raw # key].valid

\* mutant: the valid list holds every registry code once
InvoiceContext_valid_once(meta) ==
    LET used == Contributing(meta.client_case_matches)
        valid == [i \in 1..Len(used) |-> used[i].matchedCode.val]
    IN  [filename |-> meta.filename,
         allowed_client_cases_prompt |-> [i \in 1..Len(used) |-> used[i].code],
         allowed_client_cases_valid |->
             SelectSeq([i \in 1..Len(valid) |->
                           IF \E j \in 1..(i - 1) : valid[j] = valid[i]
                           THEN <<>> ELSE valid[i]],
                       LAMBDA code : code # <<>>),
         correction_map |-> [i \in 1..Len(used) |->
                                [raw |-> used[i].code, valid |-> used[i].matchedCode.val]]]

\* the context of one invoice
InvoiceContext(meta) ==
    LET used == Contributing(meta.client_case_matches)
    IN  [filename |-> meta.filename,
         allowed_client_cases_prompt |-> [i \in 1..Len(used) |-> used[i].code],
         allowed_client_cases_valid |-> [i \in 1..Len(used) |-> used[i].matchedCode.val],
         correction_map |-> [i \in 1..Len(used) |->
                                [raw |-> used[i].code, valid |-> used[i].matchedCode.val]]]

\* the manifest entries the loader keeps
Loadable(inv) == inv.is_coaching_invoice /\ inv.ready_for_llm

\* examples.sort(key=lambda x: x['filename']): a stable sort
RECURSIVE SortByFilename(_)
SortByFilename(contexts) ==
    IF contexts = <<>> THEN <<>>
    ELSE LET last == contexts[Len(contexts)]
             sorted == SortByFilename(SubSeq(contexts, 1, Len(contexts) - 1))
             before == Cardinality({i \in 1..Len(sorted) :
                                      sorted[i].filename <= last.filename})
         IN  SubSeq(sorted, 1, before) \o <<last>>
             \o SubSeq(sorted, before + 1, Len(sorted))

\* mutant: every coaching invoice of the manifest is loaded
LoadAllCoachingInvoices_ignore_ready(man, meta) ==
    LET kept == SelectSeq(man, LAMBDA inv : inv.is_coaching_invoice)
    IN  SortByFilename([i \in 1..Len(kept) |->
            InvoiceContext(meta[CHOOSE j \in 1..Len(meta) :
                                   meta[j].filename = kept[i].filename])])

\* load_all_coaching_invoices: the contexts of the manifest entries it
\* keeps, sorted by file name
LoadAllCoachingInvoices(man, meta) ==
    LET kept == SelectSeq(man, Loadable)
    IN  SortByFilename([i \in 1..Len(kept) |->
            InvoiceContext(meta[CHOOSE j \in 1..Len(meta) :
                                   meta[j].filename = kept[i].filename])])

-----------------------------------------------------------------------------
(* The input files of the pre-processor *)

\* candidate words a page can hold
PageWords ==
    {<<>>, <<IO_I21>>, <<JN16_I21_284>>, <<JN16_121_284>>, <<AB12_034_567>>,
     <<XX99_X99_999>>, <<JN16_I21_284, JN16_121_284>>,
     <<JN16_I21_284, XX99_X99_999>>, <<JN16_121_284, XX99_X99_999>>,
     <<JN16_I21_284, JN16_I21_284>>}

\* a digital PDF whose text layer the primary engine reads
DigitalPdfs == {[primary |-> Reads(Page(60, w)), secondary |-> Raises] : w \in PageWords}
\* a PDF the primary engine fails on and the secondary reads
FallbackPdfs == {[primary |-> Raises, secondary |-> Reads(Page(60, w))] :
                    w \in {<<>>, <<JN16_121_284>>}}
\* a PDF with a text layer of a few words only
ShortPdfs == {[primary |-> Reads(Page(0, w)), secondary |-> Reads(Page(0, w))] :
                    w \in {<<>>, <<JN16_I21_284>>}}
\* a PDF no engine can read
BrokenPdfs == {[primary |-> Raises, secondary |-> Raises]}

PdfFiles == DigitalPdfs \cup FallbackPdfs \cup ShortPdfs \cup BrokenPdfs

\* the registry files the pre-processor is run with
PreRegistries ==
    {<<>>, <<JN16_I21_284>>, <<AB12_C34_567, AB12_O34_567>>,
     <<AB12_O34_567, AB12_034_567>>}

-----------------------------------------------------------------------------
(* The pre-processor run: construct, process every file, save, load *)

InitPre ==
    /\ csv_rows \in PreRegistries
    /\ registry_file \in {"ok", "missing"}
    /\ registry_file = "missing" => csv_rows = <<>>
    /\ matcher = "unloaded"
    /\ valid_codes = {}
    /\ index_by_canon = EmptyIndex
    /\ result = NoResult
    /\ pdf_count \in 0..MaxPdfs
    /\ input_dir \in {"ok", "missing"}
    /\ input_dir = "missing" => pdf_count = 0
    /\ exit_code = NoExit
    /\ pre_pc = "new"
    /\ results = <<>>
    /\ metadata = <<>>
    /\ manifest = <<>>
    /\ examples = <<>>
    /\ OrchUnused
    /\ MainIdle /\ AgentIdle /\ CanonIdle /\ FenceIdle

\* main of run.py without the input directory: the error is printed, main
\* returns None and the interpreter ends the script normally
MissingInputDir ==
    /\ pre_pc = "new"
    /\ input_dir = "missing"
    /\ pre_pc' = "ended"
    /\ exit_code' = Exit(0)
    /\ UNCHANGED <<matcherVars, registry_file, pdf_count, input_dir, results,
                   metadata, manifest, examples>>
    /\ UNCHANGED <<orchVars, mainVars, agentVars, canonVars, fenceVars>>

\* main of run.py up to UniversalInvoiceExtractor.__init__: the matcher is
\* built when the registry file exists
ExtractorInit ==
    /\ pre_pc = "new"
    /\ input_dir = "ok"
    /\ IF registry_file = "ok"
       THEN LET loaded == LoadRows(csv_rows, {}, EmptyIndex)
            IN  /\ valid_codes' = loaded.valid_codes
                /\ index_by_canon' = loaded.index_by_canon
                /\ matcher' = "loaded"
       ELSE /\ matcher' = "disabled"
            /\ UNCHANGED <<valid_codes, index_by_canon>>
    /\ pre_pc' = "processing"
    /\ UNCHANGED <<csv_rows, result, registry_file, pdf_count, input_dir, exit_code,
                   results, metadata, manifest, examples>>
    /\ UNCHANGED <<orchVars, mainVars, agentVars, canonVars, fenceVars>>

\* one turn of the loop of process_all_invoices: process_invoice on the next
\* file, the result appended
ProcessInvoice ==
    /\ pre_pc = "processing"
    /\ Len(results) < pdf_count
    /\ \E pdf \in PdfFiles :
          results' = Append(results,
              ProcessPdf(Len(results) + 1, pdf, matcher, valid_codes, index_by_canon))
    /\ UNCHANGED <<matcherVars, registry_file, pdf_count, input_dir, pre_pc, exit_code,
                   metadata, manifest, examples>>
    /\ UNCHANGED <<orchVars, mainVars, agentVars, canonVars, fenceVars>>

\* process_all_invoices finds no PDF file: nothing is saved, main returns
\* None and the script ends
EmptyBatch ==
    /\ pre_pc = "processing"
    /\ pdf_count = 0
    /\ pre_pc' = "ended"
    /\ exit_code' = Exit(0)
    /\ UNCHANGED <<matcherVars, registry_file, pdf_count, input_dir, results,
                   metadata, manifest, examples>>
    /\ UNCHANGED <<orchVars, mainVars, agentVars, canonVars, fenceVars>>

\* save_results, called when the batch is not empty; main returns and the
\* script ends
SaveResults ==
    /\ pre_pc = "processing"
    /\ Len(results) = pdf_count
    /\ pdf_count > 0
    /\ metadata' = [i \in 1..Len(results) |-> MetadataEntry(results[i])]
    /\ manifest' = [i \in 1..Len(results) |-> ManifestEntry(results[i])]
    /\ pre_pc' = "saved"
    /\ exit_code' = Exit(0)
    /\ UNCHANGED <<matcherVars, registry_file, pdf_count, input_dir, results, examples>>
    /\ UNCHANGED <<orchVars, mainVars, agentVars, canonVars, fenceVars>>

\* main of the orchestrator up to its loop: load_all_coaching_invoices, and
\* the return when nothing was loaded
LoadInvoices ==
    /\ pre_pc = "saved"
    /\ examples' = LoadAllCoachingInvoices(manifest, metadata)
    /\ pre_pc' = "loaded"
    /\ main_pc' = IF examples' = <<>> THEN "done" ELSE "loop"
    /\ UNCHANGED <<matcherVars, registry_file, pdf_count, input_dir, exit_code, results,
                   metadata, manifest, processed, outputs, main_sleeps>>
    /\ UNCHANGED <<orchVars, agentVars, canonVars, fenceVars>>

NextPre ==
    \/ MissingInputDir \/ ExtractorInit \/ ProcessInvoice \/ EmptyBatch
    \/ SaveResults \/ LoadInvoices

SpecPre == InitPre /\ [][NextPre]_vars

-----------------------------------------------------------------------------
(* Result schemas (llm_models.py) and the agents' partial results *)

\* Optional[str] whose text the model does not look into
NoneS == [some |-> FALSE, val |-> ""]
SomeS(s) == [some |-> TRUE, val |-> s]
\* Optional[float], hours counted in half hours
NoneH == [some |-> FALSE, val |-> 0]
SomeH(h) == [some |-> TRUE, val |-> h]

\* Python truthiness of an Optional[str]
Truthy(o) == o.some /\ o.val # ""

\* InvoiceHeader
InvoiceHeader(supplier, number, date, kvk, vat) ==
    [supplierName |-> supplier, invoiceNumber |-> number, invoiceDate |-> date,
     kvkNumber |-> kvk, vatNumber |-> vat]

\* InvoiceHeader(): every field None
EmptyInvoiceHeader == InvoiceHeader(NoneS, NoneS, NoneS, NoneS, NoneS)

\* HeaderResult
HeaderResult(header, is_coaching) ==
    [invoiceHeader |-> header, isCoachingInvoice |-> is_coaching]

\* ClientCase
ClientCase(validated, raw, date, hours) ==
    [validatedClientCaseNumber |-> validated, rawClientCaseNumber |-> raw,
     date |-> date, durationHours |-> hours]

\* LineItemsResult
LineItemsResult(cases, no_activity) ==
    [clientCases |-> cases, clientCasesNoActivity |-> no_activity]

\* LineItemsResult(): both lists empty
EmptyLineItemsResult == LineItemsResult(<<>>, <<>>)

\* InvoiceLLMResult
InvoiceLLMResult(header, is_coaching, cases, no_activity) ==
    [invoiceHeader |-> header, isCoachingInvoice |-> is_coaching,
     clientCases |-> cases, clientCasesNoActivity |-> no_activity]

\* one entry of the log of calls: what was called and whether it gave something
Call(op, ok) == [op |-> op, ok |-> ok]

\* what an awaited _run_agent call has returned so far: nothing yet, None, or
\* a validated result
Pending(blank) == [done |-> FALSE, some |-> FALSE, val |-> blank]
Failed(blank) == [done |-> TRUE, some |-> FALSE, val |-> blank]
Returned(val) == [done |-> TRUE, some |-> TRUE, val |-> val]

-----------------------------------------------------------------------------
(* utils.py: post-processing of the line items *)

RECURSIVE SortedFrom(_)
\* the members of a set in ascending order
SortedFrom(S) ==
    IF S = {} THEN <<>>
    ELSE LET least == CHOOSE a \in S : \A b \in S \ {a} : StrLess(a, b)
         IN  <<least>> \o SortedFrom(S \ {least})

Members(list) == {list[i] : i \in 1..Len(list)}

\* mutant: the list is kept as it is
SortedSet_as_is(list) == list

\* sorted(list(set(...)))
SortedSet(list) == SortedFrom(Members(list))

\* mutant: the code is swapped and the misread string is not kept
CorrectCase_no_raw(case, map) ==
    IF MapHas(map, case.validatedClientCaseNumber)
    THEN [case EXCEPT !.validatedClientCaseNumber =
                          MapGet(map, case.validatedClientCaseNumber)]
    ELSE case

\* one turn of the first loop of apply_client_case_corrections
CorrectCase(case, map) ==
    IF /\ MapHas(map, case.validatedClientCaseNumber)
       /\ MapGet(map, case.validatedClientCaseNumber) # case.validatedClientCaseNumber
    THEN [case EXCEPT !.rawClientCaseNumber = Some(case.validatedClientCaseNumber),
                      !.validatedClientCaseNumber =
                          MapGet(map, case.validatedClientCaseNumber)]
    ELSE case

apply_client_case_corrections(res, map) ==
    [res EXCEPT
        !.clientCases = [i \in 1..Len(res.clientCases) |-> CorrectCase(res.clientCases[i], map)],
        !.clientCasesNoActivity =
            SortedSet([i \in 1..Len(res.clientCasesNoActivity) |->
                          IF MapHas(map, res.clientCasesNoActivity[i])
                          THEN MapGet(map, res.clientCasesNoActivity[i])
                          ELSE res.clientCasesNoActivity[i]])]

\* mutant: only the active list is filtered
enforce_allowed_client_cases_active_only(res, allowed) ==
    [res EXCEPT
        !.clientCases = SelectSeq(res.clientCases,
            LAMBDA case : case.validatedClientCaseNumber \in Members(allowed)),
        !.clientCasesNoActivity = SortedSet(res.clientCasesNoActivity)]

enforce_allowed_client_cases(res, allowed) ==
    [res EXCEPT
        !.clientCases = SelectSeq(res.clientCases,
            LAMBDA case : case.validatedClientCaseNumber \in Members(allowed)),
        !.clientCasesNoActivity = SortedSet(SelectSeq(res.clientCasesNoActivity,
            LAMBDA code : code \in Members(allowed)))]

-----------------------------------------------------------------------------
(* InvoiceOrchestrator *)

\* durationHours is None or 0
NoHours(case) == ~case.durationHours.some \/ case.durationHours.val = 0

\* the codes of the rows without hours, empty codes left out
DrainedCodes(cases) ==
    LET drained == SelectSeq(cases,
            LAMBDA case : NoHours(case) /\ case.validatedClientCaseNumber # <<>>)
    IN  [i \in 1..Len(drained) |-> drained[i].validatedClientCaseNumber]

\* mutant: the rows with hours come out last row first
PostProcessLineItems_last_first(lines) ==
    LET kept == SelectSeq(lines.clientCases, LAMBDA case : ~NoHours(case))
    IN  LineItemsResult(
            [i \in 1..Len(kept) |-> kept[Len(kept) + 1 - i]],
            SortedSet(lines.clientCasesNoActivity \o DrainedCodes(lines.clientCases)))

\* _post_process_line_items
PostProcessLineItems(lines) ==
    LineItemsResult(
        SelectSeq(lines.clientCases, LAMBDA case : ~NoHours(case)),
        SortedSet(lines.clientCasesNoActivity \o DrainedCodes(lines.clientCases)))

\* process_invoice from "if not lines_res" to its return
Finalize(context, header, lines) ==
    LET cleaned == IF ~lines.some THEN EmptyLineItemsResult
                   ELSE PostProcessLineItems(lines.val)
        merged == InvoiceLLMResult(header.invoiceHeader, header.isCoachingInvoice,
                                   cleaned.clientCases, cleaned.clientCasesNoActivity)
    IN  enforce_allowed_client_cases(
            apply_client_case_corrections(merged, context.correction_map),
            context.allowed_client_cases_valid)

MissingKvkOrVat(header) ==
    ~Truthy(header.invoiceHeader.kvkNumber) \/ ~Truthy(header.invoiceHeader.vatNumber)

\* mutant: Tier 1 takes every number the regex pass found
Tier1_overwrite(header, regex_data) ==
    [header EXCEPT
        !.invoiceHeader.kvkNumber =
            IF Truthy(regex_data.kvkNumber) THEN regex_data.kvkNumber ELSE @,
        !.invoiceHeader.vatNumber =
            IF Truthy(regex_data.vatNumber) THEN regex_data.vatNumber ELSE @]

\* Tier 1: a still missing field is taken from the regex output
Tier1(header, regex_data) ==
    [header EXCEPT
        !.invoiceHeader.kvkNumber =
            IF Truthy(regex_data.kvkNumber) /\ ~Truthy(@) THEN regex_data.kvkNumber ELSE @,
        !.invoiceHeader.vatNumber =
            IF Truthy(regex_data.vatNumber) /\ ~Truthy(@) THEN regex_data.vatNumber ELSE @]

\* Tier 2: the fields the second header call found are taken over
Tier2(header, new_header_res) ==
    IF ~new_header_res.some THEN header
    ELSE [header EXCEPT
            !.invoiceHeader.kvkNumber =
                IF Truthy(new_header_res.val.invoiceHeader.kvkNumber)
                THEN new_header_res.val.invoiceHeader.kvkNumber ELSE @,
            !.invoiceHeader.vatNumber =
                IF Truthy(new_header_res.val.invoiceHeader.vatNumber)
                THEN new_header_res.val.invoiceHeader.vatNumber ELSE @]

-----------------------------------------------------------------------------
(* InvoiceRegexExtractor: the KvK and VAT patterns *)

\* A pattern is a tree of nodes; every pattern here is compiled with
\* re.IGNORECASE or (?i), so a character is compared in lower case.
Chr(chars) == [t |-> "set", chars |-> chars]
AnyChar == [t |-> "any"]
WordBoundary == [t |-> "wb"]
Cat(parts) == [t |-> "cat", parts |-> parts]
Alt(options) == [t |-> "alt", options |-> options]
Rep(node, min, max) == [t |-> "rep", node |-> node, min |-> min, max |-> max, greedy |-> TRUE]
LazyRep(node, min, max) == [t |-> "rep", node |-> node, min |-> min, max |-> max, greedy |-> FALSE]
Group(node) == [t |-> "grp", node |-> node]

\* a repetition with max -1 has no upper limit
Star(node) == Rep(node, 0, -1)
Plus(node) == Rep(node, 1, -1)
LazyStar(node) == LazyRep(node, 0, -1)
Opt(node) == Rep(node, 0, 1)

\* a literal word, letter by letter
Lit(s) == Cat([i \in 1..Len(s) |-> Chr({LowerChar(s[i])})])

LowerSet == {LowerAZ[i] : i \in 1..Len(LowerAZ)}
\* \d, \s, \w
DigitClass == Chr(Digits)
SpaceClass == Chr({" ", "\n", "\t"})
WordChars == LowerSet \cup Digits \cup {"_"}
WordClass == Chr(WordChars)

IsWordAt(text, i) == i >= 1 /\ i <= Len(text) /\ LowerChar(text[i]) \in WordChars

\* the node of one character matches ch
MatchesChar(node, ch) ==
    IF node.t = "set" THEN LowerChar(ch) \in node.chars ELSE ch # "\n"

\* how many characters from position i on the one-character node matches,
\* up to max of them
RunLength(node, max, text, i) ==
    LET limit == IF max < 0 \/ max > Len(text) - i + 1 THEN Len(text) - i + 1 ELSE max
        stops == {k \in 0..(limit - 1) : ~MatchesChar(node, text[i + k])}
    IN  IF stops = {} THEN limit
        ELSE CHOOSE k \in stops : \A other \in stops : k <= other

\* The backtracking matcher of re keeps a list of branches still to try, the
\* one it prefers first. A branch is what is left of the pattern (rest), the
\* position in the text and the span of the capturing group so far.
Branch(rest, pos, grp) == [rest |-> rest, pos |-> pos, grp |-> grp]

\* where a capturing group that began at 'start' ends
GroupEnd(start) == [t |-> "end", start |-> start]

\* the repetition after one more round of it
OneLess(re) ==
    [re EXCEPT !.min = IF re.min > 0 THEN re.min - 1 ELSE 0,
               !.max = IF re.max > 0 THEN re.max - 1 ELSE re.max]

\* a repetition of a one-character node whose run is 'run' characters long:
\* every length from min to the run, longest first when greedy
RunBranches(re, run, rest, i, grp) ==
    IF run < re.min THEN <<>>
    ELSE [k \in 1..(run - re.min + 1) |->
            Branch(rest, i + (IF re.greedy THEN run - k + 1 ELSE re.min + k - 1), grp)]

\* a repetition of a longer node: one more round (more) or none (stop)
RoundBranches(re, more, stop) ==
    IF re.min > 0 THEN <<more>>
    ELSE IF re.max = 0 THEN <<stop>>
    ELSE IF re.greedy THEN <<more, stop>> ELSE <<stop, more>>

\* The branches that take the place of a branch once its first node has been
\* tried at its position, the preferred one first; none when the node fails.
\* The repeated nodes of the patterns here take at least one character a round.
Step(branch, text) ==
    LET re == Head(branch.rest)
        rest == Tail(branch.rest)
        i == branch.pos
    IN  CASE re.t \in {"set", "any"} ->
                IF i <= Len(text) /\ MatchesChar(re, text[i])
                THEN <<Branch(rest, i + 1, branch.grp)>> ELSE <<>>
          [] re.t = "wb" ->
                IF IsWordAt(text, i - 1) # IsWordAt(text, i)
                THEN <<Branch(rest, i, branch.grp)>> ELSE <<>>
          [] re.t = "cat" -> <<Branch(re.parts \o rest, i, branch.grp)>>
          [] re.t = "alt" ->
                [k \in 1..Len(re.options) |->
                    Branch(<<re.options[k]>> \o rest, i, branch.grp)]
          [] re.t = "rep" /\ re.node.t \in {"set", "any"} ->
                RunBranches(re, RunLength(re.node, re.max, text, i), rest, i, branch.grp)
          [] re.t = "rep" /\ re.node.t \notin {"set", "any"} ->
                RoundBranches(re, Branch(<<re.node, OneLess(re)>> \o rest, i, branch.grp),
                              Branch(rest, i, branch.grp))
          [] re.t = "grp" -> <<Branch(<<re.node, GroupEnd(i)>> \o rest, i, branch.grp)>>
          [] re.t = "end" -> <<Branch(rest, i, <<re.start, i - 1>>)>>

\* the first branch that comes to the end of the pattern, if any does
RECURSIVE Run(_, _)
Run(branches, text) ==
    IF branches = <<>> THEN <<>>
    ELSE IF Head(branches).rest = <<>> THEN <<Head(branches)>>
    ELSE Run(Step(Head(branches), text) \o Tail(branches), text)

\* pattern.match(text, i): the match re prefers, in a list, or no match
Matches(pattern, text, i) == Run(<<Branch(<<pattern>>, i, <<>>)>>, text)

\* the least of a set of positions
FirstOf(starts) == CHOOSE p \in starts : \A other \in starts : p <= other

\* pattern.findall(text) of a pattern with one group: the group of every
\* match, scanning from the left and resuming after each match
RECURSIVE FindAllFrom(_, _, _)
RECURSIVE FindAllAt(_, _, _)
RECURSIVE FindAllAfter(_, _, _, _)

\* from pos on, the scan stops at the first position with a match
FindAllFrom(pattern, text, pos) ==
    FindAllAt(pattern, text,
              {p \in pos..(Len(text) + 1) : Matches(pattern, text, p) # <<>>})

FindAllAt(pattern, text, starts) ==
    IF starts = {} THEN <<>>
    ELSE FindAllAfter(pattern, text, FirstOf(starts),
                      Matches(pattern, text, FirstOf(starts))[1])

\* the match 'first' at 'start' gives its group; the scan resumes after it
FindAllAfter(pattern, text, start, first) ==
    <<SubSeq(text, first.grp[1], first.grp[2])>>
    \o FindAllFrom(pattern, text, IF first.pos > start THEN first.pos ELSE start + 1)

FindAll(pattern, text) == FindAllFrom(pattern, text, 1)

\* [:\s#-]
SeparatorClass == Chr({":", " ", "\n", "\t", "#", "-"})

\* PATTERNS['vat_numbers'][0]: \b(NL\s*(?:\d[.\s]?){9}B\.?\s*\d{2})\b
VatPattern1 ==
    Cat(<<WordBoundary,
          Group(Cat(<<Lit(<<"n", "l">>), Star(SpaceClass),
                      Rep(Cat(<<DigitClass, Opt(Chr({".", " ", "\n", "\t"}))>>), 9, 9),
                      Lit(<<"b">>), Opt(Chr({"."})), Star(SpaceClass),
                      Rep(DigitClass, 2, 2)>>)),
          WordBoundary>>)

\* PATTERNS['vat_numbers'][1]:
\* \b(?:btw|omzetbelastingnummer|ob-nummer|ob nummer)\b.*?(\d{9}\s*B\s*\d{2})
VatPattern2 ==
    Cat(<<WordBoundary,
          Alt(<<Lit(<<"b", "t", "w">>), Lit(<<"o", "m", "z", "e", "t", "b", "e", "l", "a", "s", "t", "i", "n", "g", "n", "u", "m", "m", "e", "r">>),
                Lit(<<"o", "b", "-", "n", "u", "m", "m", "e", "r">>),
                Lit(<<"o", "b", " ", "n", "u", "m", "m", "e", "r">>)>>),
          WordBoundary, LazyStar(AnyChar),
          Group(Cat(<<Rep(DigitClass, 9, 9), Star(SpaceClass), Lit(<<"b">>),
                      Star(SpaceClass), Rep(DigitClass, 2, 2)>>))>>)

\* PATTERNS['vat_numbers'][2]:
\* (?:btw(?:-id)?|btw ?nr\.?|vat(?: ?id)?|tax(?: ?id)?)[:\s#-]*([A-Z0-9.\-]+)
VatPattern3 ==
    Cat(<<Alt(<<Cat(<<Lit(<<"b", "t", "w">>), Opt(Lit(<<"-", "i", "d">>))>>),
                Cat(<<Lit(<<"b", "t", "w">>), Opt(Chr({" "})), Lit(<<"n", "r">>), Opt(Chr({"."}))>>),
                Cat(<<Lit(<<"v", "a", "t">>), Opt(Cat(<<Opt(Chr({" "})), Lit(<<"i", "d">>)>>))>>),
                Cat(<<Lit(<<"t", "a", "x">>), Opt(Cat(<<Opt(Chr({" "})), Lit(<<"i", "d">>)>>))>>)>>),
          Star(SeparatorClass),
          Group(Plus(Chr(LowerSet \cup Digits \cup {".", "-"})))>>)

\* PATTERNS['kvk_numbers'][0]:
\* \bkvk(?:[-\s]?nummer|nr\.?)?(?:\s+\w+)?[:\s#-]*([0-9]{7,8})
KvkPattern1 ==
    Cat(<<WordBoundary, Lit(<<"k", "v", "k">>),
          Opt(Alt(<<Cat(<<Opt(Chr({"-", " ", "\n", "\t"})), Lit(<<"n", "u", "m", "m", "e", "r">>)>>),
                    Cat(<<Lit(<<"n", "r">>), Opt(Chr({"."}))>>)>>)),
          Opt(Cat(<<Plus(SpaceClass), Plus(WordClass)>>)),
          Star(SeparatorClass),
          Group(Rep(DigitClass, 7, 8))>>)

\* PATTERNS['kvk_numbers'][1]: kvk.*?(\d{8})
KvkPattern2 ==
    Cat(<<Lit(<<"k", "v", "k">>), LazyStar(AnyChar), Group(Rep(DigitClass, 8, 8))>>)

\* re.sub(r'[\s.\-]', '', raw_value.upper())
VatCleaned(raw_value) ==
    SelectSeq(Upper(raw_value), LAMBDA ch : ch \notin {" ", "\n", "\t", ".", "-"})

\* re.sub(r'^(BTWID|BTWNR|BTW|VATID|VATNR|VAT|TAXID|TAXNR|TAX)', '', cleaned)
VatPrefixes ==
    <<<<"B", "T", "W", "I", "D">>, <<"B", "T", "W", "N", "R">>, <<"B", "T", "W">>,
      <<"V", "A", "T", "I", "D">>, <<"V", "A", "T", "N", "R">>, <<"V", "A", "T">>,
      <<"T", "A", "X", "I", "D">>, <<"T", "A", "X", "N", "R">>, <<"T", "A", "X">>>>

StartsWith(s, prefix) == Len(s) >= Len(prefix) /\ SubSeq(s, 1, Len(prefix)) = prefix

WithoutVatPrefix(cleaned) ==
    LET hits == {k \in 1..Len(VatPrefixes) : StartsWith(cleaned, VatPrefixes[k])}
    IN  IF hits = {} THEN cleaned
        ELSE LET k == CHOOSE h \in hits : \A g \in hits : h <= g
             IN  SubSeq(cleaned, Len(VatPrefixes[k]) + 1, Len(cleaned))

UpperSet == {UpperAZ[i] : i \in 1..Len(UpperAZ)}

\* VAT_NL_CANON: ^NL\d{9}B\d{2}$, re.IGNORECASE
IsVatNlCanon(s) ==
    /\ Len(s) = 14
    /\ s[1] \in {"N", "n"} /\ s[2] \in {"L", "l"}
    /\ \A i \in 3..11 : s[i] \in Digits
    /\ s[12] \in {"B", "b"}
    /\ s[13] \in Digits /\ s[14] \in Digits

\* VAT_EU_GENERIC: ^[A-Z]{2}\d{8,12}$
IsVatEuGeneric(s) ==
    /\ Len(s) \in 10..14
    /\ s[1] \in UpperSet /\ s[2] \in UpperSet
    /\ \A i \in 3..Len(s) : s[i] \in Digits

\* normalize_vat_number: the normalised number, or None
normalize_vat_number(raw_value) ==
    IF raw_value = <<>> THEN None
    ELSE LET cleaned == WithoutVatPrefix(VatCleaned(raw_value))
         IN  IF IsVatNlCanon(cleaned)
             THEN Some(<<"N", "L">> \o SubSeq(cleaned, 3, 11) \o <<"B">>
                       \o SubSeq(cleaned, Len(cleaned) - 1, Len(cleaned)))
             ELSE IF IsVatEuGeneric(cleaned) THEN Some(cleaned)
             ELSE None

\* dict.fromkeys: first occurrences, in order
RECURSIVE FromKeys(_, _)
FromKeys(items, unique) ==
    IF items = <<>> THEN unique
    ELSE IF \E i \in 1..Len(unique) : unique[i] = Head(items)
         THEN FromKeys(Tail(items), unique)
         ELSE FromKeys(Tail(items), Append(unique, Head(items)))

\* _parse_vat: the matches that normalise, normalised
ParseVat(matches) ==
    LET norms == [k \in 1..Len(matches) |-> normalize_vat_number(matches[k])]
        kept == SelectSeq(norms, LAMBDA n : n.some)
    IN  FromKeys([k \in 1..Len(kept) |-> kept[k].val], <<>>)

\* extract_all(text)['kvk_numbers'] and ['vat_numbers']
FindKvkNumbers(text) ==
    Dedupe(FindAll(KvkPattern1, text) \o FindAll(KvkPattern2, text))

FindVatNumbers(text) ==
    ParseVat(FindAll(VatPattern1, text) \o FindAll(VatPattern2, text)
             \o FindAll(VatPattern3, text))

\* a Python str as one value
RECURSIVE Str(_)
Str(s) == IF s = <<>> THEN "" ELSE Head(s) \o Str(Tail(s))

\* numbers[0] if numbers else None
FirstOrNone(numbers) == IF numbers # <<>> THEN SomeS(Str(numbers[1])) ELSE NoneS

\* extract_header_fields: the first number of each kind, or None
extract_header_fields(text) ==
    [kvkNumber |-> FirstOrNone(FindKvkNumbers(text)),
     vatNumber |-> FirstOrNone(FindVatNumbers(text))]

-----------------------------------------------------------------------------
(* What the agents, the file system and the OCR service can answer *)

AcmeHeader(kvk, vat) ==
    HeaderResult(InvoiceHeader(SomeS("Acme BV"), SomeS("2025-001"),
                               SomeS("2025-03-14"), kvk, vat), TRUE)

\* mutant: the substitute says the invoice is a coaching invoice
BlankHeaderResult_coaching == HeaderResult(EmptyInvoiceHeader, TRUE)

\* the substitute for a header the agent did not deliver
BlankHeaderResult == HeaderResult(EmptyInvoiceHeader, FALSE)

\* header agent: None, or a header with or without the two numbers
HeaderResponses ==
    {Failed(BlankHeaderResult)} \cup
    {Returned(AcmeHeader(NoneS, NoneS)),
     Returned(AcmeHeader(SomeS(""), SomeS("NL863334647B01"))),
     Returned(AcmeHeader(SomeS("84726180"), NoneS)),
     Returned(AcmeHeader(SomeS("84726180"), SomeS("NL863334647B01")))}

\* the second header call on the OCR text
Tier2Responses ==
    {Failed(BlankHeaderResult),
     Returned(AcmeHeader(NoneS, NoneS)),
     Returned(AcmeHeader(SomeS("11111111"), SomeS("NL111111111B01")))}

\* a page without the two numbers
OcrNoNumbers ==
    <<"A", "c", "m", "e", " ", "B", "V">>

\* scenario S3: the KvK digits in pairs, the VAT number on the next line
OcrSpacedKvk ==
    <<"K", "v", "K", " ", "8", "4", " ", "7", "2", " ", "6", "1", " ", "8",
      "0", "\n", "B", "T", "W", " ", "N", "L", "8", "6", "3", "3", "3", "4",
      "6", "4", "7", "B", "0", "1">>

\* scenario S3 with both numbers on one line
OcrSpacedKvkOneLine ==
    <<"K", "v", "K", " ", "8", "4", " ", "7", "2", " ", "6", "1", " ", "8",
      "0", " ", "B", "T", "W", " ", "N", "L", "8", "6", "3", "3", "3", "4",
      "6", "4", "7", "B", "0", "1">>

\* a KvK number and no VAT number
OcrKvkOnly ==
    <<"K", "v", "K", "-", "n", "u", "m", "m", "e", "r", ":", " ", "8", "4",
      "7", "2", "6", "1", "8", "0">>

\* the text run_pdf_ocr_google returns without its dependencies
OcrMock ==
    <<"[", "M", "O", "C", "K", " ", "O", "C", "R", " ", "R", "E", "S", "U",
      "L", "T", "]", " ", "K", "v", "K", " ", "n", "u", "m", "m", "e", "r",
      ":", " ", "8", "4", "7", "2", "6", "1", "8", "0", " ", "B", "T", "W",
      " ", "N", "r", ":", " ", "N", "L", "8", "6", "3", "3", "3", "4", "6",
      "4", "7", "B", "0", "1">>

\* run_pdf_ocr_google: the empty string on a failure, else the page's text
OcrTexts ==
    {<<>>, OcrNoNumbers, OcrSpacedKvk, OcrSpacedKvkOneLine, OcrKvkOnly, OcrMock}

\* regex_data for each text the OCR can return
RegexData == [ocr_text \in OcrTexts |-> extract_header_fields(ocr_text)]

\* rows the line-item agent can return
AgentRows ==
    {ClientCase(JN16_121_284, None, NoneS, SomeH(3)),
     ClientCase(JN16_121_284, None, NoneS, SomeH(0)),
     ClientCase(JN16_I21_284, Some(JN16_121_284), SomeS("2025-03-14"), SomeH(-1)),
     ClientCase(JN16_I21_284, None, NoneS, SomeH(4)),
     ClientCase(AB12_O34_567, None, NoneS, NoneH),
     ClientCase(XX99_X99_999, None, NoneS, SomeH(3)),
     ClientCase(Empty, None, NoneS, SomeH(0))}

\* clientCasesNoActivity as the line-item agent can return it
AgentNoActivity ==
    {<<>>, <<JN16_121_284>>, <<JN16_I21_284, JN16_121_284>>,
     <<XX99_X99_999, JN16_I21_284, AB12_O34_567>>}

\* rows in one answer of the line-item agent
MaxCases == 2

LinesResponses ==
    {Failed(EmptyLineItemsResult)} \cup
    {Returned(LineItemsResult(cases, no_activity)) :
        cases \in SeqsUpTo(AgentRows, MaxCases), no_activity \in AgentNoActivity}

\* registries and the candidates of an invoice that is ready for the agents
ReadyInvoices ==
    {[rows |-> <<JN16_I21_284>>, cases |-> <<JN16_121_284>>],
     [rows |-> <<JN16_I21_284>>, cases |-> <<JN16_I21_284, JN16_121_284>>],
     [rows |-> <<AB12_O34_567, JN16_I21_284>>,
      cases |-> <<JN16_I21_284, AB12_O34_567>>]}

\* the context load_all_coaching_invoices builds for such an invoice
ContextOf(inv) ==
    LET loaded == LoadRows(inv.rows, {}, EmptyIndex)
        made == ProcessPdf(1, [primary |-> Reads(Page(60, inv.cases)), secondary |-> Raises],
                           "loaded", loaded.valid_codes, loaded.index_by_canon)
    IN  LoadAllCoachingInvoices(<<ManifestEntry(made)>>, <<MetadataEntry(made)>>)[1]

-----------------------------------------------------------------------------
(* InvoiceOrchestrator.process_invoice on one invoice *)

\* the default of the max_retries parameter
DefaultMaxRetries == 3

\* the two calls process_invoice gathers
Tasks == {"header", "lines"}

\* a call at its first attempt, not sleeping
FirstAttempt == [attempt |-> 0, asleep |-> FALSE]

OrchIdle ==
    /\ orch_pc = "idle"
    /\ header_res = Pending(BlankHeaderResult)
    /\ lines_res = Pending(EmptyLineItemsResult)
    /\ final_result = InvoiceLLMResult(EmptyInvoiceHeader, FALSE, <<>>, <<>>)
    /\ calls = <<>>
    /\ ocr_file = None
    /\ backoff = [task \in Tasks |-> FirstAttempt]

Init ==
    /\ \E inv \in ReadyInvoices :
          /\ csv_rows = inv.rows
          /\ invoice_data = ContextOf(inv)
    /\ registry_file = "ok"
    /\ matcher = "unloaded"
    /\ valid_codes = {}
    /\ index_by_canon = EmptyIndex
    /\ result = NoResult
    /\ PreIdle
    /\ OrchIdle
    /\ MainIdle /\ AgentIdle /\ CanonIdle /\ FenceIdle

\* process_invoice up to asyncio.gather: both agent calls are started
Dispatch ==
    /\ orch_pc = "idle"
    /\ orch_pc' = "gather"
    /\ UNCHANGED <<matcherVars, preVars, mainVars, agentVars, canonVars, fenceVars>>
    /\ UNCHANGED <<invoice_data, header_res, lines_res, final_result, calls,
                   ocr_file, backoff>>

\* the header agent's _run_agent call returns
HeaderAgentReturns ==
    /\ orch_pc = "gather"
    /\ ~header_res.done
    /\ ~backoff["header"].asleep
    /\ header_res' \in HeaderResponses
    /\ calls' = Append(calls, Call("header_agent", header_res'.some))
    /\ backoff' = [backoff EXCEPT !["header"] = FirstAttempt]
    /\ UNCHANGED <<matcherVars, preVars, mainVars, agentVars, canonVars, fenceVars>>
    /\ UNCHANGED <<invoice_data, orch_pc, lines_res, final_result, ocr_file>>

\* the line-item agent's _run_agent call returns
LinesAgentReturns ==
    /\ orch_pc = "gather"
    /\ ~lines_res.done
    /\ ~backoff["lines"].asleep
    /\ lines_res' \in LinesResponses
    /\ calls' = Append(calls, Call("lines_agent", lines_res'.some))
    /\ backoff' = [backoff EXCEPT !["lines"] = FirstAttempt]
    /\ UNCHANGED <<matcherVars, preVars, mainVars, agentVars, canonVars, fenceVars>>
    /\ UNCHANGED <<invoice_data, orch_pc, header_res, final_result, ocr_file>>

\* the result of the task's call, still pending or not
TaskResult(task) == IF task = "header" THEN header_res ELSE lines_res

\* one of the two calls meets an overload with retries left and goes to sleep
\* in asyncio.sleep(wait_time); the event loop runs the other call meanwhile
TaskBacksOff ==
    /\ orch_pc = "gather"
    /\ \E task \in Tasks :
          /\ ~TaskResult(task).done
          /\ ~backoff[task].asleep
          /\ backoff[task].attempt < DefaultMaxRetries
          /\ backoff' = [backoff EXCEPT ![task].asleep = TRUE]
    /\ UNCHANGED <<matcherVars, preVars, mainVars, agentVars, canonVars, fenceVars>>
    /\ UNCHANGED <<invoice_data, orch_pc, header_res, lines_res, final_result,
                   calls, ocr_file>>

\* the sleep of a call is over: its next attempt starts
TaskWakes ==
    /\ orch_pc = "gather"
    /\ \E task \in Tasks :
          /\ backoff[task].asleep
          /\ backoff' = [backoff EXCEPT ![task] =
                            [attempt |-> @.attempt + 1, asleep |-> FALSE]]
    /\ UNCHANGED <<matcherVars, preVars, mainVars, agentVars, canonVars, fenceVars>>
    /\ UNCHANGED <<invoice_data, orch_pc, header_res, lines_res, final_result,
                   calls, ocr_file>>

\* mutant: the second header call is made whenever the OCR returned text
NeedsTier2_any_text(read, header) == read

\* the second header call is made on an OCR text when a number is still
\* missing after Tier 1
NeedsTier2(read, header) == read /\ MissingKvkOrVat(header)

\* the ladder's calls up to Tier 1, in order: the look for the PDF, the OCR
\* call when it is there, the regex pass when the OCR returned text
LadderCalls(pdf_exists, ocr_text, filled) ==
    IF ~pdf_exists THEN <<Call("pdf_exists", FALSE)>>
    ELSE IF ocr_text = <<>> THEN <<Call("pdf_exists", TRUE), Call("ocr", FALSE)>>
    ELSE <<Call("pdf_exists", TRUE), Call("ocr", TRUE), Call("tier1", filled)>>

\* mutant: the gather returns as soon as one of the two calls has returned
Gathered_first == header_res.done \/ lines_res.done

\* await asyncio.gather(header_task, lines_task) returns: both calls have
Gathered == header_res.done /\ lines_res.done

\* process_invoice from the return of asyncio.gather to its next await (the
\* Tier-2 header call) or to its return
Join ==
    /\ orch_pc = "gather"
    /\ Gathered
    /\ LET header == IF header_res.some THEN header_res.val ELSE BlankHeaderResult
       IN  IF ~MissingKvkOrVat(header)
           THEN /\ header_res' = Returned(header)
                /\ orch_pc' = "done"
                /\ final_result' = Finalize(invoice_data, header, lines_res)
                /\ UNCHANGED <<calls, ocr_file>>
           ELSE \E pdf_exists \in BOOLEAN, ocr_text \in OcrTexts :
                  LET read == pdf_exists /\ ocr_text # <<>>
                      laddered == IF read THEN Tier1(header, RegexData[ocr_text])
                                  ELSE header
                      tier2 == NeedsTier2(read, laddered)
                  IN  /\ header_res' = Returned(laddered)
                      /\ ocr_file' = IF read THEN Some(ocr_text) ELSE ocr_file
                      /\ calls' = calls \o
                            LadderCalls(pdf_exists, ocr_text, ~MissingKvkOrVat(laddered))
                      /\ IF tier2
                         THEN /\ orch_pc' = "tier2"
                              /\ UNCHANGED final_result
                         ELSE /\ orch_pc' = "done"
                              /\ final_result' = Finalize(invoice_data, laddered, lines_res)
    /\ UNCHANGED <<matcherVars, preVars, mainVars, agentVars, canonVars, fenceVars>>
    /\ UNCHANGED <<invoice_data, lines_res, backoff>>

\* the Tier-2 header call returns; process_invoice runs to its return
Tier2Returns ==
    /\ orch_pc = "tier2"
    /\ \E new_header_res \in Tier2Responses :
          LET header == Tier2(header_res.val, new_header_res)
          IN  /\ header_res' = Returned(header)
              /\ calls' = Append(calls, Call("tier2_agent", new_header_res.some))
              /\ final_result' = Finalize(invoice_data, header, lines_res)
    /\ orch_pc' = "done"
    /\ UNCHANGED <<matcherVars, preVars, mainVars, agentVars, canonVars, fenceVars>>
    /\ UNCHANGED <<invoice_data, lines_res, ocr_file, backoff>>

Next ==
    \/ Dispatch
    \/ HeaderAgentReturns \/ LinesAgentReturns
    \/ TaskBacksOff \/ TaskWakes
    \/ Join \/ Tier2Returns

Spec == Init /\ [][Next]_vars

-----------------------------------------------------------------------------
(* main of the orchestrator on what a pre-processor run has saved *)

\* invoices in one batch
MaxBatch == 3

\* the registry of these runs
MainRegistry == <<JN16_I21_284>>

\* PDFs whose verdicts are accept, needs_review and reject, and one without
\* a CCN candidate
MainPdfs ==
    {[primary |-> Reads(Page(60, w)), secondary |-> Raises] :
        w \in {<<JN16_I21_284>>, <<JN16_121_284>>, <<XX99_X99_999>>, <<>>}}

\* UniversalInvoiceExtractor.results after process_all_invoices on a batch
ResultsOf(batch) ==
    LET loaded == LoadRows(MainRegistry, {}, EmptyIndex)
    IN  [i \in 1..Len(batch) |->
            ProcessPdf(i, batch[i], "loaded", loaded.valid_codes, loaded.index_by_canon)]

\* what process_invoice can return for an invoice: the final record for some
\* answers of the two agents
MainAnswers ==
    {[header |-> BlankHeaderResult, lines |-> Failed(EmptyLineItemsResult)],
     [header |-> AcmeHeader(SomeS("84726180"), SomeS("NL863334647B01")),
      lines |-> Returned(LineItemsResult(
                   <<ClientCase(JN16_121_284, None, NoneS, SomeH(3))>>, <<>>))]}

\* json_out_multi_agent after out_path has been written
WriteFile(files, name, content) ==
    Append(SelectSeq(files, LAMBDA f : f.file # name),
           [file |-> name, content |-> content])

InitMain ==
    /\ csv_rows = MainRegistry
    /\ registry_file = "ok"
    /\ input_dir = "ok"
    /\ matcher = "loaded"
    /\ valid_codes = LoadRows(MainRegistry, {}, EmptyIndex).valid_codes
    /\ index_by_canon = LoadRows(MainRegistry, {}, EmptyIndex).index_by_canon
    /\ result = NoResult
    /\ \E batch \in SeqsUpTo(MainPdfs, MaxBatch) :
          /\ batch # <<>>
          /\ pdf_count = Len(batch)
          /\ results = ResultsOf(batch)
    /\ metadata = [i \in 1..Len(results) |-> MetadataEntry(results[i])]
    /\ manifest = [i \in 1..Len(results) |-> ManifestEntry(results[i])]
    /\ pre_pc = "saved"
    /\ exit_code = Exit(0)
    /\ examples = <<>>
    /\ OrchUnused
    /\ MainIdle /\ AgentIdle /\ CanonIdle /\ FenceIdle

\* asyncio.sleep(10) and asyncio.sleep(0.5), in half seconds
Cooldown == 20
FinalPause == 1

\* mutant: the cool-down follows every invoice
CooldownDue_always(index, total_invoices) == TRUE

\* the cool-down follows the invoice at this index of the loop (from 0)
CooldownDue(index, total_invoices) == index < total_invoices - 1

\* one turn of main's loop: process_invoice on the next example, the record
\* written to its *_parsed.json, up to the sleep that follows: the cool-down
\* or, the loop being over, the short sleep main ends with
ProcessExample ==
    /\ main_pc = "loop"
    /\ Len(processed) < Len(examples)
    /\ LET index == Len(processed)
           example == examples[index + 1]
       IN  /\ processed' = Append(processed, example.filename)
           /\ \E answer \in MainAnswers :
                 outputs' = WriteFile(outputs, example.filename,
                                Finalize(example, answer.header, answer.lines))
           /\ IF CooldownDue(index, Len(examples))
              THEN /\ main_sleeps' = Append(main_sleeps,
                                        [after |-> index + 1, seconds |-> Cooldown])
                   /\ main_pc' = "cooldown"
              ELSE /\ main_sleeps' = Append(main_sleeps,
                                        [after |-> index + 1, seconds |-> FinalPause])
                   /\ main_pc' = "pause"
    /\ UNCHANGED <<matcherVars, preVars, orchVars, agentVars, canonVars, fenceVars>>

\* the awaited sleep is over: the next turn of the loop, or main returns
SleepEnds ==
    /\ main_pc \in {"cooldown", "pause"}
    /\ main_pc' = IF Len(processed) < Len(examples) THEN "loop" ELSE "done"
    /\ UNCHANGED <<processed, outputs, main_sleeps>>
    /\ UNCHANGED <<matcherVars, preVars, orchVars, agentVars, canonVars, fenceVars>>

NextMain == LoadInvoices \/ ProcessExample \/ SleepEnds

SpecMain == InitMain /\ [][NextMain]_vars

-----------------------------------------------------------------------------
(* InvoiceOrchestrator._run_agent: one call *)

\* sub in s
Contains(s, sub) ==
    \E i \in 1..(Len(s) - Len(sub) + 1) : SubSeq(s, i, i + Len(sub) - 1) = sub

\* is_overload for the exception text e
is_overload(e) ==
    LET error_msg == Lower(e)
    IN  \/ Contains(error_msg, <<"5", "0", "3">>)
        \/ Contains(error_msg, <<"o", "v", "e", "r", "l", "o", "a", "d", "e", "d">>)
        \/ Contains(error_msg, <<"4", "2", "9">>)
        \/ Contains(error_msg, <<"u", "n", "a", "v", "a", "i", "l", "a", "b", "l", "e">>)

RECURSIVE Pow2(_)
Pow2(n) == IF n = 0 THEN 1 ELSE 2 * Pow2(n - 1)

\* mutant: the wait grows by two seconds per attempt
wait_time_linear(k) == 2 * (k + 1)

\* wait_time = 2 * (2 ** attempt)
wait_time(k) == 2 * Pow2(k)

\* exception texts of a model invocation
Msg429 == <<"4", "2", "9", " ", "R", "E", "S", "O", "U", "R", "C", "E", "_", "E", "X", "H", "A", "U", "S", "T", "E", "D">>
Msg503 == <<"5", "0", "3", " ", "U", "N", "A", "V", "A", "I", "L", "A", "B", "L", "E">>
MsgOverloaded == <<"T", "h", "e", " ", "m", "o", "d", "e", "l", " ", "i", "s", " ", "O", "v", "e", "r", "l", "o", "a", "d", "e", "d">>
MsgEmpty == <<"E", "m", "p", "t", "y", " ", "r", "e", "s", "p", "o", "n", "s", "e", " ", "f", "r", "o", "m", " ", "m", "o", "d", "e", "l">>
MsgInvalid == <<"1", " ", "v", "a", "l", "i", "d", "a", "t", "i", "o", "n", " ", "e", "r", "r", "o", "r">>
MsgEcho == <<"i", "n", "v", "a", "l", "i", "d", " ", "k", "v", "k", "N", "u", "m", "b", "e", "r", " ", "8", "4", "2", "9", "4", "2", "9", "0">>

ErrorTexts == {Msg429, Msg503, MsgOverloaded, MsgEmpty, MsgInvalid, MsgEcho}

\* the outcome of one model invocation: a valid answer or an exception
Answered == [ok |-> TRUE, error |-> <<>>]
Raised(e) == [ok |-> FALSE, error |-> e]

InitAgent ==
    /\ csv_rows = <<>>
    /\ registry_file = "ok"
    /\ matcher = "unloaded"
    /\ valid_codes = {}
    /\ index_by_canon = EmptyIndex
    /\ result = NoResult
    /\ PreIdle
    /\ OrchUnused
    /\ MainIdle /\ CanonIdle /\ FenceIdle
    /\ max_retries \in 0..DefaultMaxRetries
    /\ agent_pc = "invoke"
    /\ attempt = 0
    /\ invocations = <<>>
    /\ sleeps = <<>>
    /\ agent_ret = [done |-> FALSE, some |-> FALSE]

\* the model answers and the answer validates: the result is returned
AgentAnswers ==
    /\ agent_pc = "invoke"
    /\ invocations' = Append(invocations, Answered)
    /\ agent_ret' = [done |-> TRUE, some |-> TRUE]
    /\ agent_pc' = "returned"
    /\ UNCHANGED <<max_retries, attempt, sleeps>>
    /\ UNCHANGED <<matcherVars, preVars, orchVars, mainVars, canonVars, fenceVars>>

\* the invocation, the parsing or the validation raises: the except branch,
\* up to the sleep or to the return
AgentRaises ==
    /\ agent_pc = "invoke"
    /\ \E e \in ErrorTexts :
          /\ invocations' = Append(invocations, Raised(e))
          /\ IF is_overload(e) /\ attempt < max_retries
             THEN /\ sleeps' = Append(sleeps, wait_time(attempt))
                  /\ agent_pc' = "sleep"
                  /\ UNCHANGED agent_ret
             ELSE /\ agent_ret' = [done |-> TRUE, some |-> FALSE]
                  /\ agent_pc' = "returned"
                  /\ UNCHANGED sleeps
    /\ UNCHANGED <<max_retries, attempt>>
    /\ UNCHANGED <<matcherVars, preVars, orchVars, mainVars, canonVars, fenceVars>>

\* asyncio.sleep is over: the next turn of the loop
AgentWakes ==
    /\ agent_pc = "sleep"
    /\ attempt' = attempt + 1
    /\ agent_pc' = "invoke"
    /\ UNCHANGED <<max_retries, invocations, sleeps, agent_ret>>
    /\ UNCHANGED <<matcherVars, preVars, orchVars, mainVars, canonVars, fenceVars>>

NextAgent == AgentAnswers \/ AgentRaises \/ AgentWakes

\* the awaited invocation and the awaited sleep both come to an end
SpecAgent == InitAgent /\ [][NextAgent]_vars /\ WF_vars(NextAgent)

-----------------------------------------------------------------------------
(* ClientCaseMatcher.canonical_case_number: one call *)

\* what can stand where the code format has a letter
LetterGlyphs == {"I", "O", "i", "o", "1", "0", "J"}

\* strings of the format LLDD-LDD-DDD
FullCodes ==
    {<<a, b, "1", "6", "-", c, "2", "1", "-", "2", "8", "4">> :
        a \in LetterGlyphs, b \in LetterGlyphs, c \in LetterGlyphs}

\* the arguments: full codes, the same with surrounding blanks, with the last
\* one or two characters missing, and cut after the sixth character
CanonArguments ==
    FullCodes
    \cup {<<" ">> \o code \o <<" ", " ">> : code \in FullCodes}
    \cup {SubSeq(code, 1, 11) : code \in FullCodes}
    \cup {SubSeq(code, 1, 10) : code \in FullCodes}
    \cup {SubSeq(code, 1, 6) : code \in FullCodes}
    \cup {<<>>, Blank}

InitCanon ==
    /\ csv_rows = <<>>
    /\ registry_file = "ok"
    /\ matcher = "unloaded"
    /\ valid_codes = {}
    /\ index_by_canon = EmptyIndex
    /\ result = NoResult
    /\ PreIdle
    /\ OrchUnused
    /\ MainIdle /\ AgentIdle /\ FenceIdle
    /\ canon_pc = "called"
    /\ canon_in \in CanonArguments
    /\ canon_out = <<>>

\* canonical_case_number(canon_in) returns
Canonicalise ==
    /\ canon_pc = "called"
    /\ canon_out' = canonical_case_number(canon_in)
    /\ canon_pc' = "returned"
    /\ UNCHANGED canon_in
    /\ UNCHANGED <<matcherVars, preVars, orchVars, mainVars, agentVars, fenceVars>>

\* the value returned is passed to canonical_case_number again
CanonicaliseAgain ==
    /\ canon_pc = "returned"
    /\ canon_in' = canon_out
    /\ canon_pc' = "called"
    /\ UNCHANGED canon_out
    /\ UNCHANGED <<matcherVars, preVars, orchVars, mainVars, agentVars, fenceVars>>

NextCanon == Canonicalise \/ CanonicaliseAgain

SpecCanon == InitCanon /\ [][NextCanon]_vars

-----------------------------------------------------------------------------
(* strip_markdown_json_fences: one call *)

\* the backquote character, which a TLA+ string cannot hold
Backquote == "BACKQUOTE"

\* the Markdown fence: three backquotes
Fence == <<Backquote, Backquote, Backquote>>

\* str.find and str.rfind of one character, counted from 1; 0 when absent
Find(s, ch) ==
    LET hits == {i \in 1..Len(s) : s[i] = ch}
    IN  IF hits = {} THEN 0 ELSE CHOOSE i \in hits : \A j \in hits : i <= j

RFind(s, ch) ==
    LET hits == {i \in 1..Len(s) : s[i] = ch}
    IN  IF hits = {} THEN 0 ELSE CHOOSE i \in hits : \A j \in hits : j <= i

\* where sub first starts in s; 0 when it does not occur
FindSub(s, sub) ==
    LET hits == {i \in 1..(Len(s) - Len(sub) + 1) : SubSeq(s, i, i + Len(sub) - 1) = sub}
    IN  IF hits = {} THEN 0 ELSE CHOOSE i \in hits : \A j \in hits : i <= j

\* "\n".join(text.splitlines()[1:]): what follows the first line
AfterFirstLine(text) ==
    IF Find(text, "\n") = 0 THEN <<>>
    ELSE SubSeq(text, Find(text, "\n") + 1, Len(text))

\* strip_markdown_json_fences; the slice text[start_idx : end_idx + 1] is
\* empty when the last closing brace comes before the first opening one
strip_markdown_json_fences(s) ==
    IF s = <<>> THEN s
    ELSE LET text == Strip(s)
             start_idx == Find(text, "{")
             end_idx == RFind(text, "}")
         IN  IF start_idx # 0 /\ end_idx # 0
             THEN SubSeq(text, start_idx, end_idx)
             ELSE IF StartsWith(text, Fence)
             THEN LET body == Strip(AfterFirstLine(text))
                  IN  IF FindSub(body, Fence) # 0
                      THEN Strip(SubSeq(body, 1, FindSub(body, Fence) - 1))
                      ELSE body
             ELSE text

\* the longest argument, in pieces
MaxPieces == 4

\* what the arguments are made of: a fence, a line break, a blank, the two
\* braces and other text
Pieces == {Fence, <<"\n">>, <<" ">>, <<"{">>, <<"}">>, <<"a">>}

RECURSIVE Concat(_)
Concat(pieces) == IF pieces = <<>> THEN <<>> ELSE Head(pieces) \o Concat(Tail(pieces))

\* the arguments of the call
FenceArguments == {Concat(pieces) : pieces \in SeqsUpTo(Pieces, MaxPieces)}

InitFences ==
    /\ csv_rows = <<>>
    /\ registry_file = "ok"
    /\ matcher = "unloaded"
    /\ valid_codes = {}
    /\ index_by_canon = EmptyIndex
    /\ result = NoResult
    /\ PreIdle
    /\ OrchUnused
    /\ MainIdle /\ AgentIdle /\ CanonIdle
    /\ fence_pc = "called"
    /\ fence_in \in FenceArguments
    /\ fence_out = <<>>

\* strip_markdown_json_fences(fence_in) returns
StripFences ==
    /\ fence_pc = "called"
    /\ fence_out' = strip_markdown_json_fences(fence_in)
    /\ fence_pc' = "returned"
    /\ UNCHANGED fence_in
    /\ UNCHANGED <<matcherVars, preVars, orchVars, mainVars, agentVars, canonVars>>

NextFences == StripFences

SpecFences == InitFences /\ [][NextFences]_vars

-----------------------------------------------------------------------------
(* What the registry file says, read off csv_rows without the index *)

\* the registry's rows as codes: stripped, blank rows skipped
RegistryRows == SelectSeq([i \in 1..Len(csv_rows) |-> Strip(csv_rows[i])],
                          LAMBDA c : c # <<>>)

\* the registry's codes
RegistryCodes == {RegistryRows[i] : i \in 1..Len(RegistryRows)}

\* the rows whose canonical form is canon, in file order
Bucket(canon) == SelectSeq(RegistryRows, LAMBDA c : canonical_case_number(c) = canon)

\* the distinct codes whose canonical form is canon
CodesOfCanon(canon) == {c \in RegistryCodes : canonical_case_number(c) = canon}

Matched == result.match_status # "none"

-----------------------------------------------------------------------------
(* Claims about ClientCaseMatcher.match *)

\* C4: a match result is exact if and only if matched_code equals
\* original_code and original_code is a registry code; an exact result has
\* confidence 1.0.
C4_ExactIff ==
    Matched =>
        /\ (result.match_status = "exact") <=>
              (/\ result.matched_code = Some(result.original_code)
               /\ result.original_code \in RegistryCodes)
        /\ (result.match_status = "exact" => result.match_confidence = 100)

C4_Witness ==
    /\ result.match_status = "exact"
    /\ result.original_code = JN16_I21_284

\* C5: a fuzzy_io_swap result has exactly one candidate, matched_code is that
\* candidate and a registry code, original_code differs from matched_code and
\* both have the same canonical form.
C5_FuzzyShape ==
    result.match_status = "fuzzy_io_swap" =>
        /\ Len(result.candidates) = 1
        /\ result.matched_code = Some(result.candidates[1])
        /\ result.matched_code.val \in RegistryCodes
        /\ result.original_code # result.matched_code.val
        /\ canonical_case_number(result.original_code)
              = canonical_case_number(result.matched_code.val)

C5_Witness ==
    /\ result.match_status = "fuzzy_io_swap"
    /\ result.original_code = JN16_121_284
    /\ result.matched_code = Some(JN16_I21_284)

\* C6: a code that is not in the registry is classified by the bucket of its
\* canonical form: no bucket gives unknown (confidence 0, no matched_code, no
\* candidates), so an empty registry gives unknown for every code; a bucket
\* of several entries gives ambiguous_io_swap (confidence 0.3, no
\* matched_code, candidates equal to the bucket, at least two).
C6_UnknownAndAmbiguous ==
    (Matched /\ result.original_code \notin RegistryCodes) =>
        LET bucket == Bucket(canonical_case_number(result.original_code))
        IN  /\ bucket = <<>> =>
                  /\ result.match_status = "unknown"
                  /\ result.match_confidence = 0
                  /\ result.matched_code = None
                  /\ result.candidates = <<>>
            /\ Len(bucket) >= 2 =>
                  /\ result.match_status = "ambiguous_io_swap"
                  /\ result.match_confidence = 30
                  /\ result.matched_code = None
                  /\ result.candidates = bucket
                  /\ Len(result.candidates) >= 2
            /\ RegistryCodes = {} => result.match_status = "unknown"

C6_Witness ==
    /\ result.match_status = "ambiguous_io_swap"
    /\ result.original_code = AB12_034_567
    /\ result.candidates = <<AB12_O34_567, AB12_O34_567>>

\* C7 as stated: a code whose canonical form is that of two registry entries
\* is ambiguous_io_swap and has no matched_code.
C7_Original ==
    (Matched /\ Cardinality(CodesOfCanon(canonical_case_number(result.original_code))) >= 2) =>
        /\ result.match_status = "ambiguous_io_swap"
        /\ result.matched_code = None

\* C7 amended: a code that is not itself a registry code and whose canonical
\* form is that of two registry entries is ambiguous_io_swap and has no
\* matched_code.
C7_AmbiguousNeverCorrected ==
    (/\ Matched
     /\ result.original_code \notin RegistryCodes
     /\ Cardinality(CodesOfCanon(canonical_case_number(result.original_code))) >= 2) =>
        /\ result.match_status = "ambiguous_io_swap"
        /\ result.matched_code = None

C7_Witness ==
    /\ result.match_status = "ambiguous_io_swap"
    /\ result.original_code = ab12_o34_567
    /\ Cardinality(CodesOfCanon(canonical_case_number(result.original_code))) >= 2

-----------------------------------------------------------------------------
(* Claims about the pre-processor *)

Statuses(inv) ==
    {inv.client_case_matches[j].matchStatus : j \in 1..Len(inv.client_case_matches)}

\* the invoice of scenario S2: AB12-034-567 is its only candidate
IsS2Invoice(inv) == inv.client_case_numbers = <<AB12_034_567>>

S2Registry ==
    /\ matcher = "loaded"
    /\ RegistryCodes = {AB12_C34_567, AB12_O34_567}

Saved == pre_pc \in {"saved", "loaded"}

IsLoaded(filename) == \E k \in 1..Len(examples) : examples[k].filename = filename

\* C8 as stated: in scenario S2 the verdict is reject, ready_for_llm is false
\* and the invoice is not handed to the orchestrator.
C8_Original ==
    S2Registry =>
        \A i \in 1..Len(results) :
            IsS2Invoice(results[i]) =>
                /\ results[i].client_case_summary.verdict = "reject"
                /\ Saved => ~manifest[i].ready_for_llm
                /\ pre_pc = "loaded" => ~IsLoaded(results[i].filename)

\* C8 amended: in scenario S2 the candidate is a fuzzy_io_swap of
\* AB12-O34-567, the verdict is needs_review, ready_for_llm is true and the
\* invoice is handed to the orchestrator.
C8_S2NeedsReview ==
    S2Registry =>
        \A i \in 1..Len(results) :
            IsS2Invoice(results[i]) =>
                /\ results[i].client_case_matches[1].matchStatus = "fuzzy_io_swap"
                /\ results[i].client_case_matches[1].matchedCode = Some(AB12_O34_567)
                /\ results[i].client_case_summary.verdict = "needs_review"
                /\ Saved => manifest[i].ready_for_llm
                /\ pre_pc = "loaded" => IsLoaded(results[i].filename)

C8_Witness ==
    /\ S2Registry
    /\ pre_pc = "loaded"
    /\ \E i \in 1..Len(results) : IsS2Invoice(results[i])

\* C9: the verdict of an invoice follows, in this order, from the match
\* statuses of its candidates: no candidate gives reject; else any unknown or
\* ambiguous_io_swap gives reject; else any fuzzy_io_swap gives needs_review;
\* else, all being exact, accept.
C9_VerdictOrder ==
    \A i \in 1..Len(results) :
        LET inv == results[i]
            verdict == inv.client_case_summary.verdict
            rejecting == Statuses(inv) \cap {"unknown", "ambiguous_io_swap"} # {}
        IN  /\ inv.client_case_numbers = <<>> => verdict = "reject"
            /\ rejecting => verdict = "reject"
            /\ (~rejecting /\ "fuzzy_io_swap" \in Statuses(inv)) => verdict = "needs_review"
            /\ (/\ inv.client_case_numbers # <<>>
                /\ Len(inv.client_case_matches) = Len(inv.client_case_numbers)
                /\ Statuses(inv) = {"exact"}) => verdict = "accept"

\* one unknown candidate beside a fuzzy one: reject
C9_Witness ==
    \E i \in 1..Len(results) :
        /\ Statuses(results[i]) = {"fuzzy_io_swap", "unknown"}
        /\ results[i].client_case_summary.verdict = "reject"

\* C10: ready_for_llm of a manifest entry is is_coaching_invoice and
\* text_length > 0 and verdict not reject; an invoice with text but no case
\* number, and an invoice with empty text, are not ready.
C10_ReadyForLlm ==
    Saved =>
        \A i \in 1..Len(manifest) :
            LET entry == manifest[i]
                meta == metadata[i]
            IN  /\ entry.filename = meta.filename
                /\ entry.ready_for_llm <=>
                      (/\ entry.is_coaching_invoice
                       /\ meta.text_length > 0
                       /\ entry.client_case_verdict # "reject")
                /\ (meta.text_length > 0 /\ results[i].client_case_numbers = <<>>)
                      => ~entry.ready_for_llm
                /\ meta.text_length = 0 => ~entry.ready_for_llm

\* a ready invoice beside one with text and no case number
C10_Witness ==
    /\ Saved
    /\ \E i, j \in 1..Len(manifest) :
          /\ manifest[i].ready_for_llm
          /\ manifest[i].client_case_verdict = "needs_review"
          /\ metadata[j].text_length > 0
          /\ results[j].client_case_numbers = <<>>
          /\ ~manifest[j].ready_for_llm

-----------------------------------------------------------------------------
(* Claims about InvoiceOrchestrator.process_invoice *)

\* process_invoice has returned final_result
Returned_record == orch_pc = "done"

AllowedValid == Members(invoice_data.allowed_client_cases_valid)

ActiveCodes(res) ==
    {res.clientCases[i].validatedClientCaseNumber : i \in 1..Len(res.clientCases)}

\* C1: in every record process_invoice returns, whatever the two agents
\* returned, every entry of clientCases carries a validatedClientCaseNumber of
\* allowed_client_cases_valid and every member of clientCasesNoActivity is in
\* allowed_client_cases_valid.
C1_AllowList ==
    Returned_record =>
        /\ ActiveCodes(final_result) \subseteq AllowedValid
        /\ Members(final_result.clientCasesNoActivity) \subseteq AllowedValid

\* the line-item agent named a code outside the allow-list both with hours and
\* without; the record keeps other entries in both lists
C1_Witness ==
    /\ Returned_record
    /\ lines_res.some
    /\ XX99_X99_999 \in ActiveCodes(lines_res.val)
    /\ XX99_X99_999 \in Members(lines_res.val.clientCasesNoActivity)
    /\ XX99_X99_999 \notin AllowedValid
    /\ final_result.clientCases # <<>>
    /\ final_result.clientCasesNoActivity # <<>>

\* C2: in every record process_invoice returns, every entry of clientCases has
\* durationHours strictly greater than 0: a row the line-item agent returned
\* with durationHours null, 0 or any non-positive value is absent from the
\* active list.
C2_PositiveHours ==
    Returned_record =>
        \A i \in 1..Len(final_result.clientCases) :
            /\ final_result.clientCases[i].durationHours.some
            /\ final_result.clientCases[i].durationHours.val > 0

\* C3: in every record process_invoice returns, also when the line-item agent
\* failed, clientCasesNoActivity is in strictly ascending order and so holds
\* no code twice, also after the correction map has mapped two different raw
\* codes to the same registry code.
C3_NoActivityAscending ==
    Returned_record =>
        \A i \in 1..(Len(final_result.clientCasesNoActivity) - 1) :
            StrLess(final_result.clientCasesNoActivity[i],
                    final_result.clientCasesNoActivity[i + 1])

\* the agent listed a registry code and its misread form, which the correction
\* map sends to that same registry code; the record holds the code once
C3_Witness ==
    /\ Returned_record
    /\ lines_res.some
    /\ lines_res.val.clientCasesNoActivity = <<JN16_I21_284, JN16_121_284>>
    /\ MapHas(invoice_data.correction_map, JN16_I21_284)
    /\ MapGet(invoice_data.correction_map, JN16_121_284) = JN16_I21_284
    /\ MapGet(invoice_data.correction_map, JN16_I21_284) = JN16_I21_284
    /\ final_result.clientCasesNoActivity = <<JN16_I21_284>>

-----------------------------------------------------------------------------
(* Claims about a run without the registry file *)

\* the invoice has text and CCN candidates
WellFormed(inv) == inv.text_length > 0 /\ inv.client_case_numbers # <<>>

\* C11: when the registry file is missing the matcher is disabled and the CCN
\* annotation is skipped, and the verdict of an invoice that has text and CCN
\* candidates defaults to accept.
C11_DisabledAccepts ==
    (registry_file = "missing" /\ pre_pc # "new") =>
        /\ matcher = "disabled"
        /\ \A i \in 1..Len(results) :
              /\ results[i].client_case_matches = <<>>
              /\ WellFormed(results[i]) =>
                    results[i].client_case_summary.verdict = "accept"

-----------------------------------------------------------------------------
(* Claims about the correction map in process_invoice *)

CorrectionMap == invoice_data.correction_map

\* the code is a key of the correction map with a different value
Swapped(code) == MapHas(CorrectionMap, code) /\ MapGet(CorrectionMap, code) # code

\* the rows of the line-item agent's answer that carry hours
AgentActiveRows ==
    SelectSeq(lines_res.val.clientCases,
              LAMBDA row : row.durationHours.some /\ row.durationHours.val # 0)

\* the codes of the line-item agent's answer that carry no hours
AgentIdleCodes ==
    Members(lines_res.val.clientCasesNoActivity) \cup
    {lines_res.val.clientCases[i].validatedClientCaseNumber :
        i \in {j \in 1..Len(lines_res.val.clientCases) :
                 /\ lines_res.val.clientCases[j] \notin Members(AgentActiveRows)
                 /\ lines_res.val.clientCases[j].validatedClientCaseNumber # <<>>}}

\* C12: an active row whose agent-returned validatedClientCaseNumber is a key
\* of the correction map with a different value is in the final record with
\* the mapped registry code as validatedClientCaseNumber and the
\* agent-returned string as rawClientCaseNumber; a member of
\* clientCasesNoActivity that is a key is replaced by its value; a row whose
\* code is not a key or maps to itself is left unchanged (and is kept when its
\* code is allowed).
C12_CorrectionMapApplied ==
    (Returned_record /\ lines_res.some) =>
        /\ \A i \in 1..Len(AgentActiveRows) :
              LET row == AgentActiveRows[i]
                  code == row.validatedClientCaseNumber
              IN  IF Swapped(code)
                  THEN \E j \in 1..Len(final_result.clientCases) :
                          final_result.clientCases[j] =
                             [row EXCEPT !.validatedClientCaseNumber = MapGet(CorrectionMap, code),
                                         !.rawClientCaseNumber = Some(code)]
                  ELSE /\ code \in AllowedValid =>
                             \E j \in 1..Len(final_result.clientCases) :
                                 final_result.clientCases[j] = row
                       /\ code \notin AllowedValid => code \notin ActiveCodes(final_result)
        /\ Len(final_result.clientCases) <= Len(AgentActiveRows)
        /\ \A code \in AgentIdleCodes :
              IF MapHas(CorrectionMap, code)
              THEN /\ MapGet(CorrectionMap, code) \in Members(final_result.clientCasesNoActivity)
                   /\ Swapped(code) => code \notin Members(final_result.clientCasesNoActivity)
              ELSE code \in Members(final_result.clientCasesNoActivity) <=> code \in AllowedValid

\* scenario S1: the agent returns JN16-121-284 with hours and names it among
\* the codes without activity; the record carries JN16-I21-284 with raw
\* JN16-121-284, and JN16-I21-284 without activity
C12_Witness ==
    /\ Returned_record
    /\ lines_res.some
    /\ lines_res.val.clientCases = <<ClientCase(JN16_121_284, None, NoneS, SomeH(3))>>
    /\ lines_res.val.clientCasesNoActivity = <<JN16_121_284>>
    /\ final_result.clientCases =
          <<ClientCase(JN16_I21_284, Some(JN16_121_284), NoneS, SomeH(3))>>
    /\ final_result.clientCasesNoActivity = <<JN16_I21_284>>

-----------------------------------------------------------------------------
(* Claims about failures inside process_invoice *)

Called(op, ok) == \E i \in 1..Len(calls) : calls[i] = Call(op, ok)

IsOptionalStr(o) == DOMAIN o = {"some", "val"} /\ o.some \in BOOLEAN /\ o.val \in STRING
IsCode(c) == c \in Seq(STRING)

\* a record of the InvoiceLLMResult schema
WellTyped(r) ==
    /\ DOMAIN r = {"invoiceHeader", "isCoachingInvoice", "clientCases",
                   "clientCasesNoActivity"}
    /\ r.isCoachingInvoice \in BOOLEAN
    /\ DOMAIN r.invoiceHeader = {"supplierName", "invoiceNumber", "invoiceDate",
                                 "kvkNumber", "vatNumber"}
    /\ \A f \in DOMAIN r.invoiceHeader : IsOptionalStr(r.invoiceHeader[f])
    /\ \A i \in 1..Len(r.clientCases) :
          /\ DOMAIN r.clientCases[i] = {"validatedClientCaseNumber", "rawClientCaseNumber",
                                        "date", "durationHours"}
          /\ IsCode(r.clientCases[i].validatedClientCaseNumber)
          /\ r.clientCases[i].rawClientCaseNumber.some \in BOOLEAN
          /\ IsCode(r.clientCases[i].rawClientCaseNumber.val)
          /\ IsOptionalStr(r.clientCases[i].date)
          /\ r.clientCases[i].durationHours.some \in BOOLEAN
          /\ r.clientCases[i].durationHours.val \in Int
    /\ \A i \in 1..Len(r.clientCasesNoActivity) : IsCode(r.clientCasesNoActivity[i])

\* until it has returned, process_invoice is at a point from which it goes
\* on: before the dispatch, waiting for an agent, at the join or waiting for
\* the Tier-2 call
NeverStuck ==
    orch_pc # "done" =>
        \/ orch_pc = "idle"
        \/ orch_pc = "gather" /\ \E task \in Tasks :
                                    ~TaskResult(task).done /\ ~backoff[task].asleep
        \/ orch_pc = "gather" /\ \E task \in Tasks : backoff[task].asleep
        \/ orch_pc = "gather" /\ header_res.done /\ lines_res.done
        \/ orch_pc = "tier2"

\* the record process_invoice returns after failures, as C13 states it
RecordAfterFailures_stated ==
    Returned_record =>
          /\ WellTyped(final_result)
          /\ Called("header_agent", FALSE) =>
                /\ final_result.invoiceHeader = EmptyInvoiceHeader
                /\ ~final_result.isCoachingInvoice
          /\ Called("lines_agent", FALSE) =>
                /\ final_result.clientCases = <<>>
                /\ final_result.clientCasesNoActivity = <<>>

\* the record process_invoice returns after failures
RecordAfterFailures ==
    Returned_record =>
          /\ WellTyped(final_result)
          /\ Called("header_agent", FALSE) =>
                /\ final_result.invoiceHeader.supplierName = NoneS
                /\ final_result.invoiceHeader.invoiceNumber = NoneS
                /\ final_result.invoiceHeader.invoiceDate = NoneS
                /\ ~final_result.isCoachingInvoice
                /\ ~Called("ocr", TRUE) => final_result.invoiceHeader = EmptyInvoiceHeader
          /\ Called("lines_agent", FALSE) =>
                /\ final_result.clientCases = <<>>
                /\ final_result.clientCasesNoActivity = <<>>

\* C13 as stated: process_invoice never aborts and returns a well-typed
\* record; after a failed header agent the record's header is empty, after a
\* failed line-item agent both lists are empty.
C13_Original == NeverStuck /\ RecordAfterFailures_stated

\* C13, amended: process_invoice never aborts and returns a well-typed record
\* for every combination of agent outcomes, a missing PDF, an empty OCR text
\* and a failed Tier-2 call.  After a failed header agent supplierName,
\* invoiceNumber and invoiceDate are null and isCoachingInvoice is false;
\* kvkNumber and vatNumber are null too unless the OCR returned text, from
\* which the ladder may have filled them.  After a failed line-item agent
\* both lists are empty.
C13_NeverAborts == NeverStuck /\ RecordAfterFailures

\* both agents failed, the OCR text held no number and the Tier-2 call failed
\* as well: the record is the empty one
C13_Witness ==
    /\ Returned_record
    /\ Called("header_agent", FALSE)
    /\ Called("lines_agent", FALSE)
    /\ Called("tier1", FALSE)
    /\ Called("tier2_agent", FALSE)
    /\ final_result = InvoiceLLMResult(EmptyInvoiceHeader, FALSE, <<>>, <<>>)

-----------------------------------------------------------------------------
(* Claims about _run_agent *)

\* the error text names a rate limit or an overload
Transient(e) ==
    \E word \in {<<"4", "2", "9">>, <<"5", "0", "3">>,
                 <<"o", "v", "e", "r", "l", "o", "a", "d", "e", "d">>,
                 <<"u", "n", "a", "v", "a", "i", "l", "a", "b", "l", "e">>} :
        Contains(Lower(e), word)

AgentReturned == agent_pc = "returned"
ReturnedNone == AgentReturned /\ agent_ret.done /\ ~agent_ret.some

\* what holds at every point of one _run_agent call; attempt k is invocation
\* k + 1
AgentResilience ==
    /\ Len(invocations) <= max_retries + 1
    /\ Len(sleeps) <= max_retries
    /\ \A k \in 0..(Len(invocations) - 1) :
          LET tried == invocations[k + 1]
          IN  /\ (~tried.ok /\ Transient(tried.error) /\ k < max_retries) =>
                    /\ Len(sleeps) >= k + 1
                    /\ sleeps[k + 1] = 2 * Pow2(k)
                    /\ Len(invocations) = k + 1 => agent_pc \in {"sleep", "invoke"}
              /\ (~tried.ok /\ Transient(tried.error) /\ k = max_retries) =>
                    /\ ReturnedNone
                    /\ Len(sleeps) = k
              /\ (~tried.ok /\ ~Transient(tried.error)) =>
                    /\ ReturnedNone
                    /\ Len(invocations) = k + 1
                    /\ Len(sleeps) = k
              /\ tried.ok =>
                    /\ AgentReturned /\ agent_ret.some
                    /\ Len(invocations) = k + 1
    /\ max_retries = DefaultMaxRetries =>
          \E n \in 0..3 : sleeps = SubSeq(<<2, 4, 8>>, 1, n)

\* C14: in one _run_agent call a transient failure (error text containing
\* 429, 503, overloaded or unavailable) on attempt k is followed by a backoff
\* of 2 * 2^k seconds and a new attempt, for at most max_retries retries
\* (waits 2, 4, 8 s with the default 3); a non-transient failure returns None
\* at once with no sleep and no further attempt; after the last allowed
\* attempt fails the call returns None; every call ends after at most
\* max_retries + 1 model invocations.
C14_AgentResilience == []AgentResilience /\ <>AgentReturned

\* four transient failures in a row with the default max_retries: three
\* sleeps of 2, 4 and 8 seconds, then None
C14_Witness ==
    /\ ReturnedNone
    /\ max_retries = DefaultMaxRetries
    /\ Len(invocations) = 4
    /\ \A i \in 1..4 : ~invocations[i].ok /\ Transient(invocations[i].error)
    /\ invocations[3] = Raised(MsgOverloaded)
    /\ sleeps = <<2, 4, 8>>

-----------------------------------------------------------------------------
(* Claims about the orchestrator's batch loop *)

ReadyFiles ==
    {manifest[i].filename : i \in {j \in 1..Len(manifest) : manifest[j].ready_for_llm}}

OutputFiles == {outputs[i].file : i \in 1..Len(outputs)}

Verdicts == [i \in 1..Len(manifest) |-> manifest[i].client_case_verdict]

MainDone == pre_pc = "loaded" /\ main_pc = "done"

\* C15: the batch loop calls process_invoice exactly once for every manifest
\* entry with ready_for_llm = true and never for an entry with ready_for_llm
\* = false, and writes exactly one *_parsed.json per processed invoice; for a
\* batch of one accept, one needs_review and one reject invoice exactly two
\* invoices are processed and exactly two output files exist afterwards.
C15_BatchLoop ==
    /\ \A i \in 1..Len(processed) : processed[i] \in ReadyFiles
    /\ \A i, j \in 1..Len(processed) : processed[i] = processed[j] => i = j
    /\ OutputFiles = Members(processed)
    /\ Len(outputs) = Len(processed)
    /\ MainDone =>
          /\ Members(processed) = ReadyFiles
          /\ Verdicts = <<"accept", "needs_review", "reject">> =>
                Len(processed) = 2 /\ Len(outputs) = 2

\* the batch of scenario S4 has been worked off: the first two invoices were
\* processed, the rejected one was not
C15_Witness ==
    /\ MainDone
    /\ Verdicts = <<"accept", "needs_review", "reject">>
    /\ processed = <<1, 2>>
    /\ OutputFiles = {1, 2}

-----------------------------------------------------------------------------
(* Claims about the pre-processing command *)

RunEnded == exit_code.some

\* C16: when the input directory data/invoices does not exist the
\* pre-processing command ends with a non-zero exit code; exit code 0 is
\* produced only on success, an empty batch included.
C16_ExitCodes ==
    RunEnded =>
        /\ input_dir = "missing" => exit_code.val # 0
        /\ exit_code.val = 0 => input_dir = "ok"

-----------------------------------------------------------------------------
(* Claims about canonical_case_number *)

\* C17: canonicalisation is idempotent: canonical_case_number applied to its
\* own result returns that result, for every string, also one shorter than
\* 11 characters, in lower case or with surrounding whitespace.
C17_CanonIdempotent ==
    /\ canonical_case_number(canonical_case_number(canon_in)) =
          canonical_case_number(canon_in)
    /\ (canon_pc = "returned" /\ canon_in = canon_out) =>
          canonical_case_number(canon_out) = canon_out
    /\ canon_pc = "returned" => canon_out = canonical_case_number(canon_in)

\* a lower-case code with surrounding blanks has been canonicalised: the
\* result differs from the argument and is its own canonical form
C17_Witness ==
    /\ canon_pc = "returned"
    /\ canon_in = <<" ", "i", "o", "1", "6", "-", "i", "2", "1", "-", "2", "8", "4", " ", " ">>
    /\ canon_out = <<"1", "0", "1", "6", "-", "1", "2", "1", "-", "2", "8", "4">>
    /\ canonical_case_number(canon_out) = canon_out

-----------------------------------------------------------------------------
(* Claims about the invoice contexts *)

\* the metadata entry of a file
MetadataOf(filename) ==
    metadata[CHOOSE j \in 1..Len(metadata) : metadata[j].filename = filename]

ContextInvariants(context) ==
    LET prompt == context.allowed_client_cases_prompt
        valid == context.allowed_client_cases_valid
        map == context.correction_map
        matches == MetadataOf(context.filename).client_case_matches
    IN  /\ Len(prompt) = Len(valid)
        /\ \A i \in 1..Len(prompt) :
              /\ MapHas(map, prompt[i])
              /\ MapGet(map, prompt[i]) = valid[i]
              /\ \E j \in 1..Len(matches) :
                    /\ matches[j].code = prompt[i]
                    /\ matches[j].matchStatus \in {"exact", "fuzzy_io_swap"}
                    /\ matches[j].matchedCode = Some(valid[i])
        /\ \A i \in 1..Len(map) :
              /\ map[i].raw \in Members(prompt)
              /\ map[i].valid \in Members(valid)

\* C18: every invoice context built by load_all_coaching_invoices has
\* allowed_client_cases_prompt and allowed_client_cases_valid of the same
\* length, correction_map[prompt[i]] = valid[i] for every index i, every key
\* of correction_map in the prompt list and every value in the valid list,
\* and only candidates with status exact or fuzzy_io_swap and a matched code
\* contribute.
C18_ContextInvariants ==
    \A k \in 1..Len(examples) : ContextInvariants(examples[k])

\* a context for an invoice that names a registry code and its misread form:
\* two prompt entries, paired with the same registry code
C18_Witness ==
    /\ pre_pc = "loaded"
    /\ \E k \in 1..Len(examples) :
          /\ examples[k].allowed_client_cases_prompt = <<JN16_I21_284, JN16_121_284>>
          /\ examples[k].allowed_client_cases_valid = <<JN16_I21_284, JN16_I21_284>>

-----------------------------------------------------------------------------
(* Claims about the self-correction ladder *)

CalledIn(log, op) == {i \in 1..Len(log) : log[i].op = op}

\* the header the ladder starts from: the header agent's result or its
\* empty substitute
InitialHeader == IF header_res.some THEN header_res.val ELSE BlankHeaderResult

LadderOps == {"pdf_exists", "ocr", "tier1", "tier2_agent"}

\* the step of process_invoice that follows the two agents' return
AfterGather == orch_pc = "gather" /\ orch_pc' # "gather"

\* what that step does
LadderStep ==
    AfterGather =>
        /\ (\E i \in 1..Len(calls') : calls'[i].op \in LadderOps) =>
              MissingKvkOrVat(InitialHeader)
        /\ orch_pc' = "tier2" <=>
              /\ \E i \in 1..Len(calls') : calls'[i] = Call("ocr", TRUE)
              /\ MissingKvkOrVat(header_res'.val)
        /\ (\E i \in 1..Len(calls') : calls'[i] = Call("tier1", TRUE)) =>
              /\ ~MissingKvkOrVat(header_res'.val)
              /\ orch_pc' = "done"

\* the order of the ladder's calls
LadderOrder ==
    /\ Cardinality(CalledIn(calls, "ocr")) <= 1
    /\ Cardinality(CalledIn(calls, "tier1")) <= 1
    /\ Cardinality(CalledIn(calls, "tier2_agent")) <= 1
    /\ \A t \in CalledIn(calls, "tier1") :
          \E o \in CalledIn(calls, "ocr") : o < t /\ calls[o].ok
    /\ \A t \in CalledIn(calls, "tier2_agent") :
          \E r \in CalledIn(calls, "tier1") : r < t /\ ~calls[r].ok
    /\ orch_pc = "tier2" =>
          /\ Called("tier1", FALSE)
          /\ CalledIn(calls, "tier2_agent") = {}
    /\ (orch_pc = "done" /\ Called("tier1", FALSE)) =>
          CalledIn(calls, "tier2_agent") # {}

\* C19: the ladder starts only when kvkNumber or vatNumber is missing after
\* the initial header result or its empty substitute; OCR is called at most
\* once and before Tier 1; Tier 1 runs before Tier 2; the Tier-2 header call
\* is made if and only if OCR returned non-empty text and kvkNumber or
\* vatNumber is still missing after Tier 1, so that Tier 2 is skipped when
\* Tier 1 fills every missing field.
C19_LadderOrder == [][LadderStep]_vars /\ []LadderOrder

\* the header agent left vatNumber out, the OCR text held both numbers:
\* Tier 1 filled the gap and no second header call was made
C19_Witness ==
    /\ Returned_record
    /\ Called("header_agent", TRUE)
    /\ Called("tier1", TRUE)
    /\ CalledIn(calls, "tier2_agent") = {}
    /\ Truthy(final_result.invoiceHeader.vatNumber)

\* the Tier-2 header call returns
Tier2Step == orch_pc = "tier2" /\ orch_pc' = "done"

\* C20: Tier 2 only fills gaps: a kvkNumber or vatNumber that is already
\* known (from the first header call or from Tier 1) when Tier 2 runs is never
\* replaced by the value of the Tier-2 response; only a field that was still
\* missing takes its value from that response.
C20_Tier2OnlyFillsGaps ==
    [][Tier2Step =>
          /\ Truthy(header_res.val.invoiceHeader.kvkNumber) =>
                /\ header_res'.val.invoiceHeader.kvkNumber =
                      header_res.val.invoiceHeader.kvkNumber
                /\ final_result'.invoiceHeader.kvkNumber =
                      header_res.val.invoiceHeader.kvkNumber
          /\ Truthy(header_res.val.invoiceHeader.vatNumber) =>
                /\ header_res'.val.invoiceHeader.vatNumber =
                      header_res.val.invoiceHeader.vatNumber
                /\ final_result'.invoiceHeader.vatNumber =
                      header_res.val.invoiceHeader.vatNumber]_vars

-----------------------------------------------------------------------------
(* Claims about what the ladder writes *)

\* the two header fields the ladder is there to complete
LadderFields == {"kvkNumber", "vatNumber"}

\* every other field of the header result is the same in both
OtherFieldsKept(before, after) ==
    /\ \A f \in (DOMAIN before.invoiceHeader) \ LadderFields :
          after.invoiceHeader[f] = before.invoiceHeader[f]
    /\ after.isCoachingInvoice = before.isCoachingInvoice

\* the step after the gather: a number differs from the header agent's only
\* where that was missing and the regex pass on the OCR text found one, and
\* where Tier 1 ran every such gap is filled with the regex value
Tier1Frame ==
    AfterGather =>
        /\ OtherFieldsKept(InitialHeader, header_res'.val)
        /\ \A f \in LadderFields :
              LET before == InitialHeader.invoiceHeader[f]
                  after == header_res'.val.invoiceHeader[f]
              IN  /\ after # before =>
                        /\ ~Truthy(before)
                        /\ ocr_file'.some
                        /\ Truthy(RegexData[ocr_file'.val][f])
                        /\ after = RegexData[ocr_file'.val][f]
                  /\ (ocr_file'.some /\ ~Truthy(before)
                         /\ Truthy(RegexData[ocr_file'.val][f])) =>
                        after = RegexData[ocr_file'.val][f]

\* the Tier-2 step leaves the other fields alone
Tier2Frame == Tier2Step => OtherFieldsKept(header_res.val, header_res'.val)

\* C21: Tier 1 writes kvkNumber (vatNumber) from the regex output only when
\* the header's field is missing and the regex pass found one, and then it
\* does; no stage of the ladder ever changes supplierName, invoiceNumber,
\* invoiceDate or isCoachingInvoice.
C21_LadderFrame == [][Tier1Frame /\ Tier2Frame]_vars

\* the header agent knew the VAT number but returned an empty kvkNumber, the
\* OCR text held a KvK number only: the record has both, the rest as returned
C21_Witness ==
    /\ Returned_record
    /\ Called("header_agent", TRUE)
    /\ Called("tier1", TRUE)
    /\ ocr_file = Some(OcrKvkOnly)
    /\ header_res.val = AcmeHeader(SomeS("84726180"), SomeS("NL863334647B01"))
    /\ final_result.invoiceHeader = header_res.val.invoiceHeader

-----------------------------------------------------------------------------
(* Claims about scenario S3 *)

\* the two fragments of the OCR text of scenario S3
KvkInPairs == <<"K", "v", "K", " ", "8", "4", " ", "7", "2", " ", "6", "1", " ", "8", "0">>
VatPrinted ==
    <<"B", "T", "W", " ", "N", "L", "8", "6", "3", "3", "3", "4", "6", "4", "7",
      "B", "0", "1">>

\* the header agent returned the header of S3, without the two numbers, and
\* the OCR text read in this step holds both fragments
ScenarioS3 ==
    /\ AfterGather
    /\ header_res = Returned(AcmeHeader(NoneS, NoneS))
    /\ ocr_file'.some
    /\ Contains(ocr_file'.val, KvkInPairs)
    /\ Contains(ocr_file'.val, VatPrinted)

\* C27: scenario S3: the header agent returns Acme BV's header with kvkNumber
\* and vatNumber null and the OCR text contains 'KvK 84 72 61 80' and
\* 'BTW NL863334647B01'; then Tier 1 sets kvkNumber to 84726180 and vatNumber
\* to NL863334647B01 and Tier 2 is skipped.
C27_ScenarioS3 ==
    [][ScenarioS3 =>
          /\ header_res'.val.invoiceHeader.kvkNumber = SomeS("84726180")
          /\ header_res'.val.invoiceHeader.vatNumber = SomeS("NL863334647B01")
          /\ orch_pc' = "done"]_vars

-----------------------------------------------------------------------------
(* Claims about validation failures in _run_agent *)

\* the texts of the exceptions model_validate_json raises: pydantic's message
\* names the failing field and echoes the input it was given
ValidationTexts == {MsgInvalid, MsgEcho}

\* this step is an attempt that ends in a validation error
ValidationFails ==
    /\ agent_pc = "invoke"
    /\ Len(invocations') = Len(invocations) + 1
    /\ ~invocations'[Len(invocations')].ok
    /\ invocations'[Len(invocations')].error \in ValidationTexts

\* C22: a schema-validation failure is non-transient: whatever text the
\* invalid response, and hence the validation error message, contains,
\* _run_agent returns None at once, without a backoff sleep and without
\* another attempt.
C22_ValidationNotRetried ==
    [][ValidationFails =>
          /\ agent_pc' = "returned"
          /\ agent_ret' = [done |-> TRUE, some |-> FALSE]
          /\ sleeps' = sleeps]_vars

-----------------------------------------------------------------------------
(* Claims about the two gathered agent calls *)

\* nothing after the gather has happened yet
NothingAfterGather ==
    /\ orch_pc \in {"idle", "gather"}
    /\ \A i \in 1..Len(calls) : calls[i].op \in {"header_agent", "lines_agent"}
    /\ ocr_file = None
    /\ final_result = InvoiceLLMResult(EmptyInvoiceHeader, FALSE, <<>>, <<>>)

\* the other one of the two calls
OtherTask(task) == IF task = "header" THEN "lines" ELSE "header"

\* a step in which the task's call returns leaves the other call as it is:
\* its result if it has one, else its attempt and its sleep
ReturnLeavesOther ==
    \A task \in Tasks :
        (~TaskResult(task).done /\ TaskResult(task).done') =>
            /\ (IF task = "header" THEN lines_res' = lines_res
                                   ELSE header_res' = header_res)
            /\ backoff'[OtherTask(task)] = backoff[OtherTask(task)]
            /\ orch_pc' = "gather"

\* once both calls are in, the line-item result is what its call returned
LinesResultKept == lines_res.done => lines_res' = lines_res

\* C23: the header call and the line-item call are two concurrent tasks
\* joined at one point: in every interleaving, one call sleeping in its
\* backoff while the other returns included, nothing of the ladder or of the
\* post-processing starts before both have returned, and the return of one,
\* with or without a result, neither ends nor changes the other.
C23_JoinPoint ==
    /\ [](~Gathered => NothingAfterGather)
    /\ [][ReturnLeavesOther /\ LinesResultKept]_vars

\* the header call has failed for good while the line-item call is asleep
\* before its second attempt
C23_Witness ==
    /\ orch_pc = "gather"
    /\ header_res.done /\ ~header_res.some
    /\ ~lines_res.done
    /\ backoff["lines"] = [attempt |-> 0, asleep |-> TRUE]
    /\ calls = <<Call("header_agent", FALSE)>>

-----------------------------------------------------------------------------
(* Claims about the order and the pacing of the batch loop *)

\* the file names of the loaded examples, in the order of the list
ExampleFiles == [i \in 1..Len(examples) |-> examples[i].filename]

\* the cool-down sleeps among main's sleeps
Cooldowns == SelectSeq(main_sleeps, LAMBDA sl : sl.seconds = Cooldown)

\* one cool-down after each of the first m invoices
CooldownsAfterFirst(m) == [i \in 1..m |-> [after |-> i, seconds |-> Cooldown]]

\* C24: main works the invoices off strictly one after the other, in
\* ascending file-name order, and sleeps the cool-down between every two
\* consecutive invoices and never after the final one.
C24_SequentialWithCooldown ==
    pre_pc = "loaded" =>
        /\ \A i, j \in 1..Len(examples) : i < j => ExampleFiles[i] < ExampleFiles[j]
        /\ processed = SubSeq(ExampleFiles, 1, Len(processed))
        /\ main_pc = "loop" =>
              /\ Len(processed) < Len(examples)
              /\ Cooldowns = CooldownsAfterFirst(Len(processed))
        /\ main_pc = "cooldown" =>
              /\ Len(processed) < Len(examples)
              /\ Cooldowns = CooldownsAfterFirst(Len(processed))
        /\ main_pc \in {"pause", "done"} =>
              /\ Len(processed) = Len(examples)
              /\ examples # <<>> => Cooldowns = CooldownsAfterFirst(Len(examples) - 1)
        /\ \A i \in 1..Len(main_sleeps) :
              /\ main_sleeps[i].after <= Len(processed)
              /\ main_sleeps[i].seconds = Cooldown => main_sleeps[i].after < Len(examples)

\* a batch of three loaded invoices is done: a cool-down after the first and
\* after the second, only the closing half second after the third
C24_Witness ==
    /\ MainDone
    /\ Len(processed) = 3
    /\ main_sleeps = <<[after |-> 1, seconds |-> Cooldown],
                       [after |-> 2, seconds |-> Cooldown],
                       [after |-> 3, seconds |-> FinalPause]>>

-----------------------------------------------------------------------------
(* Claims about failed text extraction *)

\* the manifest entry of the i-th invoice, once save_results has written it
ManifestOf(i) == manifest[i]

\* C25: the secondary engine is tried when the primary yields too little; when
\* both fail, extraction_method is failed and processing goes on with an
\* empty text, so that extraction_method = failed implies text_length = 0, no
\* CCN candidates and ready_for_llm = false.
C25_FailedMeansEmpty ==
    \A i \in 1..Len(results) :
        results[i].extraction_method = "failed" =>
            /\ results[i].text_length = 0
            /\ results[i].client_case_numbers = <<>>
            /\ i <= Len(manifest) => ~ManifestOf(i).ready_for_llm

-----------------------------------------------------------------------------
(* Claims about strip_markdown_json_fences *)

HasBraces(s) == Find(s, "{") # 0 /\ Find(s, "}") # 0
HasNoBrace(s) == Find(s, "{") = 0 /\ Find(s, "}") = 0

\* a fenced code block: an opening fence line, lines, a closing fence
IsFencedBlock(s) ==
    /\ StartsWith(s, Fence)
    /\ Find(s, "\n") # 0
    /\ FindSub(AfterFirstLine(s), Fence) # 0

\* C26: strip_markdown_json_fences: for every input that contains both a '{'
\* and a '}' the result is the substring from the first '{' to the last '}'
\* inclusive, so that it starts with '{' and ends with '}'; for an input
\* without braces that is a fenced code block the fence lines are removed;
\* for an input with neither braces nor fences the input is returned
\* unchanged.
C26_FenceStripping ==
    fence_pc = "returned" =>
        /\ HasBraces(fence_in) =>
              /\ fence_out = SubSeq(fence_in, Find(fence_in, "{"), RFind(fence_in, "}"))
              /\ fence_out # <<>>
              /\ Head(fence_out) = "{"
              /\ fence_out[Len(fence_out)] = "}"
        /\ (HasNoBrace(fence_in) /\ IsFencedBlock(fence_in)) =>
              /\ FindSub(fence_out, Fence) = 0
              /\ Contains(AfterFirstLine(fence_in), fence_out)
        /\ (HasNoBrace(fence_in) /\ FindSub(fence_in, Fence) = 0) =>
              fence_out = fence_in

-----------------------------------------------------------------------------
(* Claims about the contamination flag *)

\* the code whose I and O glyphs the flag is to report
FlaggedCode(res) == IF res.matched_code.some THEN res.matched_code.val ELSE res.original_code

\* C28: in every MatchResult the contamination flag is the I/O-presence flag
\* (none, I_only, O_only, I_and_O) of matched_code when there is a match and
\* of original_code when matched_code is empty; in particular for unknown and
\* ambiguous_io_swap results it tells the I and O glyphs of the original code.
C28_ContaminationFlag ==
    result # NoResult => result.contamination = contamination_flag(FlaggedCode(result))

-----------------------------------------------------------------------------
(* Claims about duplicate registry rows *)

\* C29: a candidate that is not itself a registry code and whose canonical
\* form is the canonical form of exactly one distinct registry code is
\* classified fuzzy_io_swap with that code as matched_code, however many rows
\* of the registry file list that code: duplicate rows do not turn a unique
\* correction into ambiguous_io_swap.
C29_DuplicateRows ==
    (Matched /\ result.original_code \notin RegistryCodes) =>
        LET codes == CodesOfCanon(canonical_case_number(result.original_code))
        IN  Cardinality(codes) = 1 =>
                /\ result.match_status = "fuzzy_io_swap"
                /\ result.matched_code = Some(CHOOSE c \in codes : TRUE)

-----------------------------------------------------------------------------
(* Claims about the rows of the final record *)

\* the row of the final record is the agent's row, its two code fields aside
RowKept(final_row, agent_row) ==
    /\ final_row.date = agent_row.date
    /\ final_row.durationHours = agent_row.durationHours
    /\ DOMAIN final_row = DOMAIN agent_row

\* the strictly increasing maps of the positions of one list into another
Embeddings(short, long) ==
    {f \in [1..Len(short) -> 1..Len(long)] :
        \A i, j \in 1..Len(short) : i < j => f[i] < f[j]}

\* the rows the line-item agent returned, none when it gave up
AgentReturnedRows == IF lines_res.some THEN lines_res.val.clientCases ELSE <<>>

\* C30: the clientCases of the final record are an order-preserving sub-list
\* of the rows the line-item agent returned: no row is merged, summed,
\* duplicated or moved, and each retained row keeps its date and its
\* durationHours, only its two code fields may differ
C30_RowsKept ==
    Returned_record =>
        \E f \in Embeddings(final_result.clientCases, AgentReturnedRows) :
            \A i \in 1..Len(final_result.clientCases) :
                RowKept(final_result.clientCases[i], AgentReturnedRows[f[i]])

\* two rows with different hours end under the same code and stay two rows,
\* one of them with its code corrected
C30_Witness ==
    /\ Returned_record
    /\ lines_res.some
    /\ Len(final_result.clientCases) = 2
    /\ final_result.clientCases[1].validatedClientCaseNumber =
           final_result.clientCases[2].validatedClientCaseNumber
    /\ final_result.clientCases[1].durationHours = SomeH(3)
    /\ final_result.clientCases[2].durationHours = SomeH(4)
    /\ final_result.clientCases[1].rawClientCaseNumber # None
    /\ AgentReturnedRows[1].validatedClientCaseNumber #
           AgentReturnedRows[2].validatedClientCaseNumber

====
